---- MODULE Spec2Model ----
(***************************************************************************)
(* golink: the link repository (document-store backed LinkRepository),     *)
(* the access and expiry evaluation it embeds, and the detached background *)
(* writes its read path starts.                                            *)
(*                                                                         *)
(* Every access to the document store (Get, Set, Delete of one document)   *)
(* is one atomic step; a repository method that makes two accesses is two  *)
(* steps, and other requests and goroutines may run between them.          *)
(***************************************************************************)
EXTENDS Naturals, Sequences, FiniteSets, Bags, TLC

VARIABLES
    store,      \* the "links" collection: short code -> stored document
    now,        \* the clock read by time.Now()
    tasks,      \* calls and goroutines in flight (a bag: identical calls may overlap)
    ev,         \* what the last step did and returned
    fresh,      \* short -> the argument of the successful Create that wrote the
                \*          stored document, while nothing else has written it
    gone,       \* short -> a Delete succeeded and no Create was issued since
    calls,      \* IncrementClickCount calls issued (counted where they are bounded)
    lim,        \* the limits of the run: tasks in flight, click count
    mem,        \* the map-backed repository of the e2e tests: links and mutex
    mock,       \* the map-backed repository of package mocks: short -> link
    cache       \* the response cache of the middleware: key -> cached answer

vars == <<store, now, tasks, ev, fresh, gone, calls, lim, mem, mock, cache>>

----------------------------------------------------------------------------
(* Bounds of the model *)

MaxTime == 2        \* the clock runs 1..MaxTime
MaxTasks == 2       \* calls and goroutines in flight at once
MaxClicks == 1      \* click increments are started while clickCount < MaxClicks
MaxInc == 2         \* IncrementClickCount calls issued, where they are counted

----------------------------------------------------------------------------
(* Values *)

\* the short code the calls name; "b" is a stored link no call names
Shorts == {"a"}
Public == "Public"
Private == "Private"
Restricted == "Restricted"
\* "" is the zero value of the field; "invalid" stands for any other string
Levels == {Public, Private, Restricted, "", "invalid"}
Identities == {"u1", "u2", "u3", ""}

Link(short, url, by, lvl, allowed, exp, isExp) ==
    [short |-> short, url |-> url, createdBy |-> by, accessLevel |-> lvl,
     allowedUsers |-> allowed, clickCount |-> 0, expiresAt |-> exp,
     isExpired |-> isExp, createdAt |-> 0, updatedAt |-> 0]

\* the nil *models.Link
NoLink == Link("", "", "", "", <<>>, 0, FALSE)

\* expiresAt is 0 for the zero time.Time ("never expires")
IsZero(t) == t = 0
After(t, u) == t > u

\* The links callers hand to Create and Update: a restricted link that
\* expires at 1 and a plain public one.
ArgLinks ==
    { Link("a", "y", "u2", Restricted, <<"u1">>, 1, FALSE),
      Link("a", "x", "u1", Public, <<>>, 0, FALSE) }

\* the stored link no call names
Bystander == [Link("b", "x", "u1", Private, <<>>, 0, FALSE)
                 EXCEPT !.createdAt = 1, !.updatedAt = 1]

----------------------------------------------------------------------------
(* The document store *)

Exists(s) == s \in DOMAIN store

\* DocumentRef.Set: create or overwrite the whole document
DocSet(st, s, link) ==
    [x \in DOMAIN st \cup {s} |-> IF x = s THEN link ELSE st[x]]

\* DocumentRef.Delete: no error when the document is absent
DocDelete(st, s) == [x \in DOMAIN st \ {s} |-> st[x]]

----------------------------------------------------------------------------
(* Tasks *)

Task(op, pc, short, link, child) ==
    [op |-> op, pc |-> pc, short |-> short, link |-> link, child |-> child]

\* the goroutine GetByShort starts: r.Update(bgCtx, &link)
BgTask(link) == Task("bg", "get", link.short, link, "none")

InFlight == BagToSet(tasks)
Room(n) == BagCardinality(tasks) + n <= lim.tasks
Add(b, t) == b (+) SetToBag({t})
Remove(b, t) == b (-) SetToBag({t})

Event(op, phase, short, who, err, link, val, spawn) ==
    [op |-> op, phase |-> phase, short |-> short, who |-> who, err |-> err,
     link |-> link, val |-> val, spawn |-> spawn]

----------------------------------------------------------------------------
(* LinkRepository.GetByShort: the read, the expiry flip of the returned    *)
(* value, and whether the goroutine that writes the flag back is started.  *)

NeedsFlag(doc) ==
    ~IsZero(doc.expiresAt) /\ After(now, doc.expiresAt) /\ ~doc.isExpired

\* (a variant that returns the stored flag as it is)
GetByShortNoFlip(s) ==
    IF ~Exists(s)
    THEN [err |-> "NotFound", link |-> NoLink, spawn |-> FALSE]
    ELSE [err |-> "nil", link |-> store[s], spawn |-> NeedsFlag(store[s])]

\* (a variant whose read fails when the flag has to be written)
GetByShortFlushFirst(s) ==
    IF ~Exists(s)
    THEN [err |-> "NotFound", link |-> NoLink, spawn |-> FALSE]
    ELSE IF NeedsFlag(store[s])
    THEN [err |-> "Internal", link |-> NoLink, spawn |-> FALSE]
    ELSE [err |-> "nil", link |-> store[s], spawn |-> FALSE]

GetByShort(s) ==
    IF ~Exists(s)
    THEN [err |-> "NotFound", link |-> NoLink, spawn |-> FALSE]
    ELSE [err |-> "nil",
          link |-> IF NeedsFlag(store[s])
                   THEN [store[s] EXCEPT !.isExpired = TRUE] ELSE store[s],
          spawn |-> NeedsFlag(store[s])]

\* the tasks after a GetByShort whose goroutine owns its link alone
WithSpawn(b, r) == IF r.spawn THEN Add(b, BgTask(r.link)) ELSE b
SpawnRoom(r, n) == Room(n + (IF r.spawn THEN 1 ELSE 0))

----------------------------------------------------------------------------
(* LinkRepository.CheckAccess, after the link is loaded *)

RECURSIVE InAllowed(_, _, _)
\* the loop over link.AllowedUsers, from index i
InAllowed(allowed, i, userID) ==
    IF i > Len(allowed) THEN FALSE
    ELSE IF allowed[i] = userID THEN TRUE
    ELSE InAllowed(allowed, i + 1, userID)

\* (a variant that forgets the creator of a restricted link)
CheckAccessListOnly(link, userID) ==
    IF link.accessLevel = Public THEN TRUE
    ELSE IF link.accessLevel = Private THEN link.createdBy = userID
    ELSE IF link.accessLevel = Restricted
         THEN InAllowed(link.allowedUsers, 1, userID)
    ELSE FALSE

CheckAccess(link, userID) ==
    IF link.accessLevel = Public THEN TRUE
    ELSE IF link.accessLevel = Private THEN link.createdBy = userID
    ELSE IF link.accessLevel = Restricted
         THEN IF link.createdBy = userID THEN TRUE
              ELSE InAllowed(link.allowedUsers, 1, userID)
    ELSE FALSE

----------------------------------------------------------------------------
(* History *)

Written(s) == [fresh EXCEPT ![s] = NoLink]
CreateInFlight(s) == \E t \in InFlight : t.op = "Create" /\ t.short = s

\* a task that has returned and whose goroutine has ended leaves the bag
Settle(b, t, t2) ==
    IF t2.pc = "done" /\ t2.child = "none"
    THEN Remove(b, t) ELSE Add(Remove(b, t), t2)

----------------------------------------------------------------------------
(* LinkRepository.Create *)

\* (a variant that does not look the short code up first)
CreateGetNoCheck(l) ==
    /\ Room(1)
    /\ tasks' = Add(tasks, Task("Create", "set", l.short, l, "none"))
    /\ ev' = Event("Create", "get", l.short, "", "pending", l, FALSE, FALSE)
    /\ gone' = [gone EXCEPT ![l.short] = FALSE]
    /\ UNCHANGED <<store, now, fresh, calls, lim, mem, mock, cache>>

CreateGet(l) ==
    LET r == GetByShort(l.short) IN
    /\ IF r.err = "nil"
       THEN /\ SpawnRoom(r, 0)
            /\ tasks' = WithSpawn(tasks, r)
            /\ ev' = Event("Create", "get", l.short, "", "AlreadyExists", l, FALSE, r.spawn)
       ELSE /\ Room(1)
            /\ tasks' = Add(tasks, Task("Create", "set", l.short, l, "none"))
            /\ ev' = Event("Create", "get", l.short, "", "pending", l, FALSE, FALSE)
    /\ gone' = [gone EXCEPT ![l.short] = FALSE]
    /\ UNCHANGED <<store, now, fresh, calls, lim, mem, mock, cache>>

CreateSet(t, ok) ==
    LET link == [t.link EXCEPT !.createdAt = now, !.updatedAt = now] IN
    /\ t.op = "Create" /\ t.pc = "set"
    /\ tasks' = Remove(tasks, t)
    /\ IF ok
       THEN /\ store' = DocSet(store, t.short, link)
            /\ fresh' = [fresh EXCEPT ![t.short] = t.link]
            /\ ev' = Event("Create", "set", t.short, "", "nil", NoLink, FALSE, FALSE)
       ELSE /\ ev' = Event("Create", "set", t.short, "", "Internal", NoLink, FALSE, FALSE)
            /\ UNCHANGED <<store, fresh>>
    /\ UNCHANGED <<now, gone, calls, lim, mem, mock, cache>>

(* LinkRepository.GetByShort, called by a client *)
GetCall(s) ==
    LET r == GetByShort(s) IN
    /\ SpawnRoom(r, 0)
    /\ tasks' = WithSpawn(tasks, r)
    /\ ev' = Event("GetByShort", "call", s, "", r.err, r.link, FALSE, r.spawn)
    /\ UNCHANGED <<store, now, fresh, gone, calls, lim, mem, mock, cache>>

(* LinkRepository.Update *)
\* (a variant that writes whether or not the document exists)
UpdateGetUpsert(l) ==
    /\ Room(1)
    /\ tasks' = Add(tasks, Task("Update", "set", l.short, l, "none"))
    /\ ev' = Event("Update", "get", l.short, "", "pending", l, FALSE, FALSE)
    /\ UNCHANGED <<store, now, fresh, gone, calls, lim, mem, mock, cache>>

UpdateGet(l) ==
    LET r == GetByShort(l.short) IN
    /\ IF r.err = "nil"
       THEN /\ SpawnRoom(r, 1)
            /\ tasks' = Add(WithSpawn(tasks, r), Task("Update", "set", l.short, l, "none"))
            /\ ev' = Event("Update", "get", l.short, "", "pending", l, FALSE, r.spawn)
       ELSE /\ ev' = Event("Update", "get", l.short, "", "NotFound", l, FALSE, FALSE)
            /\ UNCHANGED tasks
    /\ UNCHANGED <<store, now, fresh, gone, calls, lim, mem, mock, cache>>

UpdateSet(t, ok) ==
    LET link == [t.link EXCEPT !.updatedAt = now] IN
    /\ t.op = "Update" /\ t.pc = "set"
    /\ tasks' = Remove(tasks, t)
    /\ IF ok
       THEN /\ store' = DocSet(store, t.short, link)
            /\ fresh' = Written(t.short)
            /\ ev' = Event("Update", "set", t.short, "", "nil", NoLink, FALSE, FALSE)
       ELSE /\ ev' = Event("Update", "set", t.short, "", "Internal", NoLink, FALSE, FALSE)
            /\ UNCHANGED <<store, fresh>>
    /\ UNCHANGED <<now, gone, calls, lim, mem, mock, cache>>

(* LinkRepository.Delete *)
DeleteGet(s) ==
    LET r == GetByShort(s) IN
    /\ IF r.err = "nil"
       THEN /\ SpawnRoom(r, 1)
            /\ tasks' = Add(WithSpawn(tasks, r), Task("Delete", "del", s, NoLink, "none"))
            /\ ev' = Event("Delete", "get", s, "", "pending", NoLink, FALSE, r.spawn)
       ELSE /\ ev' = Event("Delete", "get", s, "", "NotFound", NoLink, FALSE, FALSE)
            /\ UNCHANGED tasks
    /\ UNCHANGED <<store, now, fresh, gone, calls, lim, mem, mock, cache>>

DeleteDel(t, ok) ==
    /\ t.op = "Delete" /\ t.pc = "del"
    /\ tasks' = Remove(tasks, t)
    /\ IF ok
       THEN /\ store' = DocDelete(store, t.short)
            /\ fresh' = Written(t.short)
            /\ gone' = [gone EXCEPT ![t.short] = ~CreateInFlight(t.short)]
            /\ ev' = Event("Delete", "del", t.short, "", "nil", NoLink, FALSE, FALSE)
       ELSE /\ ev' = Event("Delete", "del", t.short, "", "Internal", NoLink, FALSE, FALSE)
            /\ UNCHANGED <<store, fresh, gone>>
    /\ UNCHANGED <<now, calls, lim, mem, mock, cache>>

(* LinkRepository.IncrementClickCount.  The link GetByShort returns is the *)
(* variable its goroutine holds (&link): the caller's increment and the    *)
(* goroutine's write work on one object, so the goroutine is kept with the *)
(* task (child) and writes whatever the object holds when it runs.         *)
IncStart(s) ==
    LET r == GetByShort(s) IN
    /\ IF r.err = "nil"
       THEN /\ store[s].clickCount < lim.clicks
            /\ Room(1)
            /\ tasks' = Add(tasks, Task("Inc", "set", s, r.link,
                                        IF r.spawn THEN "get" ELSE "none"))
            /\ ev' = Event("Inc", "get", s, "", "pending", NoLink, FALSE, r.spawn)
       ELSE /\ ev' = Event("Inc", "get", s, "", "NotFound", NoLink, FALSE, FALSE)
            /\ UNCHANGED tasks
    /\ UNCHANGED <<store, now, fresh, gone, lim, mem, mock, cache>>

IncGet(s) == IncStart(s) /\ UNCHANGED calls

\* the same call, counted
IncGetCounted(s) == calls < MaxInc /\ IncStart(s) /\ calls' = calls + 1

IncSet(t, ok) ==
    LET link == [t.link EXCEPT !.clickCount = @ + 1, !.updatedAt = now] IN
    /\ t.op = "Inc" /\ t.pc = "set"
    /\ tasks' = Settle(tasks, t, [t EXCEPT !.pc = "done", !.link = link])
    /\ IF ok
       THEN /\ store' = DocSet(store, t.short, link)
            /\ fresh' = Written(t.short)
            /\ ev' = Event("Inc", "set", t.short, "", "nil", NoLink, FALSE, FALSE)
       ELSE /\ ev' = Event("Inc", "set", t.short, "", "Internal", NoLink, FALSE, FALSE)
            /\ UNCHANGED <<store, fresh>>
    /\ UNCHANGED <<now, gone, calls, lim, mem, mock, cache>>

(* LinkRepository.CheckAccess, called by a client *)
CheckAccessCall(s, userID) ==
    LET r == GetByShort(s) IN
    /\ SpawnRoom(r, 0)
    /\ tasks' = WithSpawn(tasks, r)
    /\ ev' = Event("CheckAccess", "call", s, userID, r.err, r.link,
                   IF r.err = "nil" THEN CheckAccess(r.link, userID) ELSE FALSE,
                   r.spawn)
    /\ UNCHANGED <<store, now, fresh, gone, calls, lim, mem, mock, cache>>

----------------------------------------------------------------------------
(* The goroutine of GetByShort: r.Update(bgCtx, &link), its error dropped. *)
(* Update reads the link again (which may start one more goroutine), then  *)
(* stamps and writes the link it was given.                                *)

BgGet(t) ==
    LET r == GetByShort(t.short) IN
    /\ t.op = "bg" /\ t.pc = "get"
    /\ IF r.err = "nil"
       THEN /\ SpawnRoom(r, 0)
            /\ tasks' = WithSpawn(Add(Remove(tasks, t), [t EXCEPT !.pc = "set"]), r)
       ELSE tasks' = Remove(tasks, t)
    /\ ev' = Event("bg", "get", t.short, "", r.err, NoLink, FALSE, r.spawn)
    /\ UNCHANGED <<store, now, fresh, gone, calls, lim, mem, mock, cache>>

\* (a variant whose write never reaches the store)
BgSetDropped(t, ok) ==
    /\ t.op = "bg" /\ t.pc = "set"
    /\ tasks' = Remove(tasks, t)
    /\ ev' = Event("bg", "set", t.short, "", "Internal", NoLink, FALSE, FALSE)
    /\ UNCHANGED <<store, now, fresh, gone, calls, lim, mem, mock, cache>>

BgWrite(t, ok) ==
    LET link == [t.link EXCEPT !.updatedAt = now] IN
    /\ t.op = "bg" /\ t.pc = "set"
    /\ tasks' = Remove(tasks, t)
    /\ IF ok
       THEN /\ store' = DocSet(store, t.short, link)
            /\ fresh' = Written(t.short)
            /\ ev' = Event("bg", "set", t.short, "", "nil", NoLink, FALSE, FALSE)
       ELSE /\ ev' = Event("bg", "set", t.short, "", "Internal", NoLink, FALSE, FALSE)
            /\ UNCHANGED <<store, fresh>>
    /\ UNCHANGED <<now, gone, lim, mem, mock, cache>>

BgSet(t, ok) == BgWrite(t, ok) /\ UNCHANGED calls

\* the same write, counted
BgSetCounted(t, ok) == calls < MaxInc /\ BgWrite(t, ok) /\ calls' = calls + 1

\* the same goroutine, when the caller still holds the link
ChildGet(t) ==
    LET r == GetByShort(t.short) IN
    /\ t.child = "get"
    /\ IF r.err = "nil"
       THEN /\ SpawnRoom(r, 0)
            /\ tasks' = WithSpawn(Add(Remove(tasks, t), [t EXCEPT !.child = "set"]), r)
       ELSE tasks' = Settle(tasks, t, [t EXCEPT !.child = "none"])
    /\ ev' = Event("bg", "get", t.short, "", r.err, NoLink, FALSE, r.spawn)
    /\ UNCHANGED <<store, now, fresh, gone, calls, lim, mem, mock, cache>>

\* The caller's link.ClickCount++ and the goroutine's reading of the link for
\* its write are not ordered: the goroutine may write the count with or
\* without the caller's increment.
ChildViews(t) ==
    IF t.pc = "done"
    THEN {t.link, [t.link EXCEPT !.clickCount = @ - 1]}
    ELSE {t.link, [t.link EXCEPT !.clickCount = @ + 1]}

ChildSet(t, ok) ==
    /\ t.child = "set"
    /\ tasks' = Settle(tasks, t, [t EXCEPT !.child = "none"])
    /\ IF ok
       THEN /\ \E v \in ChildViews(t) :
                  store' = DocSet(store, t.short, [v EXCEPT !.updatedAt = now])
            /\ fresh' = Written(t.short)
            /\ ev' = Event("bg", "set", t.short, "", "nil", NoLink, FALSE, FALSE)
       ELSE /\ ev' = Event("bg", "set", t.short, "", "Internal", NoLink, FALSE, FALSE)
            /\ UNCHANGED <<store, fresh>>
    /\ UNCHANGED <<now, gone, calls, lim, mem, mock, cache>>

Tick ==
    /\ now < MaxTime
    /\ now' = now + 1
    /\ ev' = Event("Tick", "", "", "", "nil", NoLink, FALSE, FALSE)
    /\ UNCHANGED <<store, tasks, fresh, gone, calls, lim, mem, mock, cache>>

----------------------------------------------------------------------------
(* The repository under concurrent callers *)

\* NewMockLinkRepository of the e2e tests: an empty map, the mutex free
NewMem == [links |-> [s \in {} |-> NoLink], readers |-> 0, writer |-> FALSE]

\* NewCache: no response cached
NewCache == << >>

\* NewMockLinkRepository of package mocks: an empty map
NewMock == [s \in {} |-> NoLink]

NoEvent == Event("", "", "", "", "nil", NoLink, FALSE, FALSE)

Limits(t, c) == [tasks |-> t, clicks |-> c]

\* one stored link that no call names
OnlyBystander == [s \in {"b"} |-> Bystander]

\* nothing in flight
InitWith(st, limits) ==
    /\ store = st
    /\ now = 1
    /\ tasks = EmptyBag
    /\ ev = NoEvent
    /\ fresh = [s \in Shorts |-> NoLink]
    /\ gone = [s \in Shorts |-> FALSE]
    /\ calls = 0
    /\ lim = limits
    /\ mem = NewMem
    /\ mock = NewMock
    /\ cache = NewCache

Init == InitWith(OnlyBystander, Limits(MaxTasks, MaxClicks))

Next ==
    \/ \E l \in ArgLinks : CreateGet(l)
    \/ \E t \in InFlight, ok \in BOOLEAN : CreateSet(t, ok)
    \/ \E s \in Shorts : GetCall(s)
    \/ \E l \in ArgLinks : UpdateGet(l)
    \/ \E t \in InFlight, ok \in BOOLEAN : UpdateSet(t, ok)
    \/ \E s \in Shorts : DeleteGet(s)
    \/ \E t \in InFlight, ok \in BOOLEAN : DeleteDel(t, ok)
    \/ \E s \in Shorts : IncGet(s)
    \/ \E t \in InFlight, ok \in BOOLEAN : IncSet(t, ok)
    \/ \E s \in Shorts, u \in Identities : CheckAccessCall(s, u)
    \/ \E t \in InFlight : BgGet(t)
    \/ \E t \in InFlight, ok \in BOOLEAN : BgSet(t, ok)
    \/ \E t \in InFlight : ChildGet(t)
    \/ \E t \in InFlight, ok \in BOOLEAN : ChildSet(t, ok)
    \/ Tick

Spec == Init /\ [][Next]_vars

----------------------------------------------------------------------------
(* The access evaluator on every kind of stored link *)

\* every access level, with and without an allow-list, with and without expiry
AccessLinks ==
    {[Link("a", "x", "u1", lvl, al, e, FALSE) EXCEPT !.createdAt = 1, !.updatedAt = 1] :
        lvl \in Levels, al \in {<<>>, <<"u2">>, <<"u3", "u2">>}, e \in {0, 1}}

AccessInit ==
    \E l \in AccessLinks :
        InitWith(DocSet(OnlyBystander, "a", l), Limits(MaxTasks, MaxClicks))

AccessNext ==
    \/ \E s \in Shorts \cup {"b", "c"}, u \in Identities : CheckAccessCall(s, u)
    \/ \E t \in InFlight : BgGet(t)
    \/ \E t \in InFlight, ok \in BOOLEAN : BgSet(t, ok)
    \/ Tick

AccessSpec == AccessInit /\ [][AccessNext]_vars

\* the access rule, written out
AccessRule(link, id) ==
    \/ link.accessLevel = Public
    \/ link.accessLevel = Private /\ id = link.createdBy
    \/ /\ link.accessLevel = Restricted
       /\ \/ id = link.createdBy
          \/ \E i \in DOMAIN link.allowedUsers : link.allowedUsers[i] = id

\* C1: CheckAccess on a stored link answers TRUE exactly for a Public link, for
\* the creator of a Private link, and for the creator or a listed user of a
\* Restricted link; for any other access level it answers FALSE.
C1_AccessDecision ==
    ev.op = "CheckAccess" =>
        /\ (ev.err = "nil") = Exists(ev.short)
        /\ Exists(ev.short) =>
              /\ ev.val = AccessRule(store[ev.short], ev.who)
              /\ store[ev.short].accessLevel \notin {Public, Private, Restricted}
                    => ev.val = FALSE

\* a listed user, second in the list, is let in to a restricted link
C1_Witness ==
    /\ ev.op = "CheckAccess" /\ ev.err = "nil" /\ ev.val
    /\ ev.link.accessLevel = Restricted
    /\ ev.who # ev.link.createdBy
    /\ Len(ev.link.allowedUsers) = 2 /\ ev.link.allowedUsers[2] = ev.who

----------------------------------------------------------------------------
(* The repository contract seen by callers: creations and reads of "a",    *)
(* with the goroutines the reads start, and every method called with a     *)
(* short code that is not stored.                                          *)

\* a link for a short code that is never stored
AbsentArg == Link("c", "x", "u1", Public, <<>>, 0, FALSE)

ContractNext ==
    \/ \E l \in ArgLinks : CreateGet(l)
    \/ \E t \in InFlight, ok \in BOOLEAN : CreateSet(t, ok)
    \/ \E s \in {"a", "b", "c"} : GetCall(s)
    \/ \E s \in {"a", "c"}, u \in {"u1", "u3"} : CheckAccessCall(s, u)
    \/ \E l \in ArgLinks \cup {AbsentArg} : ~Exists(l.short) /\ UpdateGet(l)
    \/ \E s \in {"a", "c"} : ~Exists(s) /\ DeleteGet(s)
    \/ \E s \in {"a", "c"} : ~Exists(s) /\ IncGet(s)
    \/ \E t \in InFlight : BgGet(t)
    \/ \E t \in InFlight, ok \in BOOLEAN : BgSet(t, ok)
    \/ Tick

ContractSpec == Init /\ [][ContractNext]_vars

CreateTasks(b) == {t \in BagToSet(b) : t.op = "Create"}

SameButStamps(l, m) ==
    /\ l.short = m.short /\ l.url = m.url /\ l.createdBy = m.createdBy
    /\ l.accessLevel = m.accessLevel /\ l.allowedUsers = m.allowedUsers
    /\ l.clickCount = m.clickCount /\ l.expiresAt = m.expiresAt

\* the read follows the creation: the created link is what is stored
ReadOfFresh ==
    /\ ev.op = "GetByShort" /\ ev.err = "nil"
    /\ ev.short \in Shorts
    /\ fresh[ev.short] # NoLink

\* C3 as stated: the link read right after its creation equals the link
\* given to Create in every field but createdAt and updatedAt, isExpired
\* included.
C3_RoundTripAsStated ==
    ReadOfFresh =>
        /\ SameButStamps(ev.link, fresh[ev.short])
        /\ ev.link.isExpired = fresh[ev.short].isExpired

\* C3, amended: the link read right after its creation equals the link given
\* to Create in every field but createdAt, updatedAt and isExpired; isExpired
\* is that of the link given, or TRUE when its expiresAt is set and before the
\* time of the read.
C3_RoundTrip ==
    ReadOfFresh =>
        /\ SameButStamps(ev.link, fresh[ev.short])
        /\ ev.link.isExpired =
              \/ fresh[ev.short].isExpired
              \/ /\ fresh[ev.short].expiresAt # 0
                 /\ now > fresh[ev.short].expiresAt
        /\ ev.link.createdAt = ev.link.updatedAt /\ ev.link.createdAt \in 1..now

\* a link created with expiresAt behind it is read back flagged
C3_Witness ==
    /\ ReadOfFresh
    /\ ev.link.isExpired /\ ~fresh[ev.short].isExpired
    /\ ev.link.createdAt = now

\* C5: GetByShort, Update, Delete, IncrementClickCount and CheckAccess called
\* with a short code that is not stored fail with NotFound, change no stored
\* link, and leave nothing in flight that could write one.
C5_AbsentIsNotFound ==
    [][(/\ ev'.op \in {"GetByShort", "Update", "Delete", "Inc", "CheckAccess"}
        /\ ev'.phase \in {"call", "get"}
        /\ ~Exists(ev'.short)) =>
          /\ ev'.err = "NotFound"
          /\ store' = store
          /\ tasks' = tasks]_vars

\* an Update of a short code that is not stored, while another link is
C5_Witness ==
    /\ ev.op = "Update" /\ ev.err = "NotFound"
    /\ ~Exists(ev.short)
    /\ Exists("a")

----------------------------------------------------------------------------
(* Concurrent callers: the properties below are stated over Spec.          *)

\* C4: once a Delete of a short code has succeeded and no Create of it was
\* issued since, every GetByShort of it and every further Delete of it fails
\* with NotFound.
C4_DeletionFinal ==
    (/\ ev.op \in {"GetByShort", "Delete"}
     /\ ev.phase \in {"call", "get"}
     /\ ev.short \in Shorts
     /\ gone[ev.short]) => ev.err = "NotFound"

\* C6: a stored isExpired of TRUE is never set back to FALSE by a click
\* increment or a background write (the writes of Update and Create, whose
\* caller supplies the link, are left aside).
C6_FlagSticky ==
    [][\A s \in Shorts :
          (/\ Exists(s) /\ store[s].isExpired
           /\ s \in DOMAIN store' /\ ~store'[s].isExpired)
          => ev'.op \in {"Update", "Create"}]_vars

\* C8: the stored clickCount of a link never decreases while the link exists,
\* whatever click increments, reads and background writes interleave (the
\* writes of Update and Create, whose caller supplies the link, are left
\* aside).
C8_ClicksMonotone ==
    [][\A s \in Shorts :
          (/\ Exists(s) /\ s \in DOMAIN store'
           /\ store'[s].clickCount < store[s].clickCount)
          => ev'.op \in {"Update", "Create"}]_vars

\* C10: of two creations of one short code, at most one succeeds: a Create
\* never succeeds over a link that an earlier Create stored and nothing has
\* written or deleted since.
C10_OneCreateWins ==
    [][(ev'.op = "Create" /\ ev'.phase = "set" /\ ev'.err = "nil")
          => fresh[ev'.short] = NoLink]_vars

----------------------------------------------------------------------------
(* Click increments alone: up to MaxInc overlapping IncrementClickCount    *)
(* calls on a link just created, the store accepting their writes, and     *)
(* nothing else but the goroutines their reads start.                      *)

\* the link as Create stored it at time 1
Created(l) == [l EXCEPT !.createdAt = 1, !.updatedAt = 1]

IncInit ==
    \E l \in ArgLinks :
        InitWith(DocSet(OnlyBystander, "a", Created(l)), Limits(MaxTasks, MaxInc))

IncNext ==
    \/ \E s \in Shorts : IncGetCounted(s)
    \/ \E t \in InFlight : IncSet(t, TRUE)
    \/ \E t \in InFlight : BgGet(t)
    \/ \E t \in InFlight, ok \in BOOLEAN : BgSet(t, ok)
    \/ \E t \in InFlight : ChildGet(t)
    \/ \E t \in InFlight, ok \in BOOLEAN : ChildSet(t, ok)
    \/ Tick

IncSpec == IncInit /\ [][IncNext]_vars

\* C9: when the calls issued (at least one) have all returned and their
\* goroutines have ended, the stored clickCount is at least 1 and at most the
\* number of calls.
C9_ClickRange ==
    (calls >= 1 /\ tasks = EmptyBag) =>
        /\ store["a"].clickCount >= 1
        /\ store["a"].clickCount <= calls

----------------------------------------------------------------------------
(* The expiry flag reaching the store: reads and click increments of a     *)
(* stored link that expires at 1, no Delete, and a store that accepts      *)
(* every write.  Goroutines that were started are scheduled, and a call    *)
(* that has read goes on to its write.  A client call is admitted while a  *)
(* slot stays free for the goroutine a background read may start.          *)

FairInit ==
    InitWith(DocSet(OnlyBystander, "a",
                    Created(Link("a", "y", "u2", Restricted, <<"u1">>, 1, FALSE))),
             Limits(MaxTasks + 1, MaxClicks))

FairNext ==
    \/ \E s \in Shorts : Room(2) /\ GetCall(s)
    \/ \E s \in Shorts, u \in {"u1", "u3"} : Room(2) /\ CheckAccessCall(s, u)
    \/ \E s \in Shorts : Room(2) /\ IncGet(s)
    \/ \E t \in InFlight : IncSet(t, TRUE)
    \/ \E t \in InFlight : BgGet(t)
    \/ \E t \in InFlight : BgSet(t, TRUE)
    \/ \E t \in InFlight : ChildGet(t)
    \/ \E t \in InFlight : ChildSet(t, TRUE)
    \/ Tick

FairSpec ==
    /\ FairInit
    /\ [][FairNext]_vars
    /\ WF_vars(\E t \in InFlight : IncSet(t, TRUE))
    /\ WF_vars(\E t \in InFlight : BgGet(t))
    /\ WF_vars(\E t \in InFlight : BgSet(t, TRUE))
    /\ WF_vars(\E t \in InFlight : ChildGet(t))
    /\ WF_vars(\E t \in InFlight : ChildSet(t, TRUE))

\* a GetByShort that found the stored link past its expiresAt and not flagged
ReadUnflagged ==
    /\ ev.op = "GetByShort" /\ ev.err = "nil" /\ ev.spawn
    /\ ~store[ev.short].isExpired
    /\ After(now, store[ev.short].expiresAt)

\* C7: a GetByShort of a stored link whose expiresAt is past and whose stored
\* isExpired is FALSE is eventually followed by a state where the stored
\* isExpired is TRUE.
C7_FlagReachesStore ==
    ReadUnflagged ~> store["a"].isExpired

\* the goroutine of a read has written the flag
C7_Witness ==
    /\ ev.op = "bg" /\ ev.phase = "set" /\ ev.err = "nil"
    /\ store["a"].isExpired
    /\ After(now, store["a"].expiresAt)
    /\ store["a"].clickCount = 0

----------------------------------------------------------------------------
(* models.Link: the expiry evaluation.  The clock counts half days, so     *)
(* that a day and a week are whole numbers of ticks.                       *)

Day == 2
Week == 7 * Day
MaxExpiry == MaxTime + Week + 1

\* Link.IsLinkExpired
IsLinkExpired(link, t) ==
    IF IsZero(link.expiresAt) THEN FALSE ELSE After(t, link.expiresAt)

\* (a variant that does not look at the stored flag)
IsExpiringOrExpiredNoFlag(link, t) ==
    IF IsZero(link.expiresAt) THEN [flag |-> FALSE, reason |-> ""]
    ELSE IF link.expiresAt < t THEN [flag |-> TRUE, reason |-> "expired"]
    ELSE IF link.expiresAt - t < Day THEN [flag |-> TRUE, reason |-> "expiring_today"]
    ELSE IF link.expiresAt - t < Week THEN [flag |-> TRUE, reason |-> "expiring_soon"]
    ELSE [flag |-> FALSE, reason |-> ""]

\* Link.IsExpiringOrExpired; daysUntilExpiry = (expiresAt - t) / Day, so
\* daysUntilExpiry < n is expiresAt - t < n * Day
IsExpiringOrExpired(link, t) ==
    IF IsZero(link.expiresAt) THEN [flag |-> FALSE, reason |-> ""]
    ELSE IF link.isExpired THEN [flag |-> TRUE, reason |-> "expired"]
    ELSE IF link.expiresAt < t THEN [flag |-> TRUE, reason |-> "expired"]
    ELSE IF link.expiresAt - t < Day THEN [flag |-> TRUE, reason |-> "expiring_today"]
    ELSE IF link.expiresAt - t < Week THEN [flag |-> TRUE, reason |-> "expiring_soon"]
    ELSE [flag |-> FALSE, reason |-> ""]

\* the evaluation applied to a stored link
ExpiryStatusCall(s) ==
    LET r == IsExpiringOrExpired(store[s], now) IN
    /\ Exists(s)
    /\ ev' = Event("ExpiryStatus", "call", s, "", "nil", store[s], r.flag, FALSE)
                @@ [reason |-> r.reason]
    /\ UNCHANGED <<store, now, tasks, fresh, gone, calls, lim, mem, mock, cache>>

ExpiryLinks ==
    {[Created(Link("a", "x", "u1", Public, <<>>, e, f)) EXCEPT !.clickCount = c] :
        e \in 0..MaxExpiry, f \in BOOLEAN, c \in 0..MaxClicks}

ExpiryInit ==
    \E l \in ExpiryLinks :
        InitWith(DocSet(OnlyBystander, "a", l), Limits(MaxTasks, MaxClicks))

ExpiryNext ==
    \/ \E s \in Shorts \cup {"b"} : ExpiryStatusCall(s)
    \/ Tick

ExpirySpec == ExpiryInit /\ [][ExpiryNext]_vars

\* C11: the expiry status of a link at a time is (FALSE, "") when expiresAt
\* is unset; otherwise (TRUE, "expired") when the flag is set or expiresAt
\* is before the time; otherwise (TRUE, "expiring_today") when less than a
\* day is left; otherwise (TRUE, "expiring_soon") when less than a week is
\* left; otherwise (FALSE, "").
C11_ExpiryStatus ==
    ev.op = "ExpiryStatus" =>
        LET l == ev.link
            left == l.expiresAt - now
            reason == CASE l.expiresAt = 0 -> ""
                        [] l.expiresAt # 0 /\ (l.isExpired \/ l.expiresAt < now) -> "expired"
                        [] l.expiresAt # 0 /\ ~l.isExpired /\ left >= 0 /\ left < Day
                              -> "expiring_today"
                        [] l.expiresAt # 0 /\ ~l.isExpired /\ left >= Day /\ left < Week
                              -> "expiring_soon"
                        [] OTHER -> ""
        IN /\ ev.reason = reason
           /\ ev.val = (reason # "")

\* a flagged link whose expiresAt is a week or more ahead is reported expired
C11_Witness ==
    /\ ev.op = "ExpiryStatus" /\ ev.reason = "expired" /\ ev.val
    /\ ev.link.isExpired
    /\ ev.link.expiresAt - now >= Week

----------------------------------------------------------------------------
(* LinkHandler.RedirectLink.  The handler reads the link, evaluates its    *)
(* expiry against the clock, asks the repository for the access decision   *)
(* (which reads the link again), then starts the click increment in a      *)
(* goroutine and answers.                                                  *)

\* a redirect request in progress: the link it read, the requesting
\* identity, and the clock value of its expiry evaluation
Request(pc, short, link, who, at) ==
    [op |-> "Redirect", pc |-> pc, short |-> short, link |-> link,
     child |-> "none", who |-> who, at |-> at]

\* the answer sent to the client
Response(short, who, link, status) ==
    Event("Redirect", "done", short, who, "nil", link, status = 302, FALSE)
        @@ [status |-> status]

\* the click increment started by a redirect, before its read
ClickTask(short) == Task("Inc", "get", short, NoLink, "none")

RedirectGet(s, userID) ==
    LET r == GetByShort(s) IN
    /\ calls < MaxInc
    /\ calls' = calls + 1
    /\ IF r.err = "nil"
       THEN /\ SpawnRoom(r, 1)
            /\ tasks' = Add(WithSpawn(tasks, r), Request("expiry", s, r.link, userID, 0))
            /\ ev' = Event("Redirect", "get", s, userID, "pending", NoLink, FALSE, r.spawn)
       ELSE /\ ev' = Response(s, userID, NoLink, 404)
            /\ UNCHANGED tasks
    /\ UNCHANGED <<store, now, fresh, gone, lim, mem, mock, cache>>

\* (a variant that does not evaluate the expiry)
RedirectExpirySkipped(t) ==
    /\ t.op = "Redirect" /\ t.pc = "expiry"
    /\ tasks' = Add(Remove(tasks, t), [t EXCEPT !.pc = "access", !.at = now])
    /\ ev' = Event("Redirect", "expiry", t.short, t.who, "pending", NoLink, FALSE, FALSE)
    /\ UNCHANGED <<store, now, fresh, gone, calls, lim, mem, mock, cache>>

RedirectExpiry(t) ==
    /\ t.op = "Redirect" /\ t.pc = "expiry"
    /\ IF IsLinkExpired(t.link, now)
       THEN IF ~t.link.isExpired
            THEN /\ tasks' = Add(Remove(tasks, t),
                                 [t EXCEPT !.pc = "markget", !.at = now,
                                           !.link.isExpired = TRUE])
                 /\ ev' = Event("Redirect", "expiry", t.short, t.who, "pending",
                                NoLink, FALSE, FALSE)
            ELSE /\ tasks' = Remove(tasks, t)
                 /\ ev' = Response(t.short, t.who, t.link, 410)
       ELSE /\ tasks' = Add(Remove(tasks, t), [t EXCEPT !.pc = "access", !.at = now])
            /\ ev' = Event("Redirect", "expiry", t.short, t.who, "pending",
                           NoLink, FALSE, FALSE)
    /\ UNCHANGED <<store, now, fresh, gone, calls, lim, mem, mock, cache>>

\* h.repo.Update(ctx, link) of the expired link: the existence check
RedirectMarkGet(t) ==
    LET r == GetByShort(t.short) IN
    /\ t.op = "Redirect" /\ t.pc = "markget"
    /\ IF r.err = "nil"
       THEN /\ SpawnRoom(r, 0)
            /\ tasks' = WithSpawn(Add(Remove(tasks, t), [t EXCEPT !.pc = "markset"]), r)
            /\ ev' = Event("Redirect", "markget", t.short, t.who, "pending",
                           NoLink, FALSE, r.spawn)
       ELSE /\ tasks' = Remove(tasks, t)
            /\ ev' = Response(t.short, t.who, t.link, 410)
    /\ UNCHANGED <<store, now, fresh, gone, calls, lim, mem, mock, cache>>

\* ... and its write; the answer is 410 whether or not the write succeeds
RedirectMarkSet(t, ok) ==
    /\ t.op = "Redirect" /\ t.pc = "markset"
    /\ tasks' = Remove(tasks, t)
    /\ ev' = Response(t.short, t.who, t.link, 410)
    /\ IF ok
       THEN /\ store' = DocSet(store, t.short, [t.link EXCEPT !.updatedAt = now])
            /\ fresh' = Written(t.short)
       ELSE UNCHANGED <<store, fresh>>
    /\ UNCHANGED <<now, gone, calls, lim, mem, mock, cache>>

RedirectAccess(t) ==
    LET r == GetByShort(t.short) IN
    /\ t.op = "Redirect" /\ t.pc = "access"
    /\ IF t.who # ""
       THEN IF r.err = "nil"
            THEN /\ SpawnRoom(r, 0)
                 /\ IF CheckAccess(r.link, t.who)
                    THEN /\ tasks' = WithSpawn(Add(Remove(tasks, t), ClickTask(t.short)), r)
                         /\ ev' = Response(t.short, t.who, t.link, 302)
                    ELSE /\ tasks' = WithSpawn(Remove(tasks, t), r)
                         /\ ev' = Response(t.short, t.who, t.link, 403)
            ELSE /\ tasks' = Remove(tasks, t)
                 /\ ev' = Response(t.short, t.who, t.link, 500)
       ELSE IF t.link.accessLevel = Public
            THEN /\ tasks' = Add(Remove(tasks, t), ClickTask(t.short))
                 /\ ev' = Response(t.short, t.who, t.link, 302)
            ELSE /\ tasks' = Remove(tasks, t)
                 /\ ev' = Response(t.short, t.who, t.link, 403)
    /\ UNCHANGED <<store, now, fresh, gone, calls, lim, mem, mock, cache>>

\* the goroutine's IncrementClickCount: its read
ClickGet(t) ==
    LET r == GetByShort(t.short) IN
    /\ t.op = "Inc" /\ t.pc = "get"
    /\ IF r.err = "nil"
       THEN tasks' = Add(Remove(tasks, t),
                         Task("Inc", "set", t.short, r.link,
                              IF r.spawn THEN "get" ELSE "none"))
       ELSE tasks' = Remove(tasks, t)
    /\ ev' = Event("Inc", "get", t.short, "", r.err, NoLink, FALSE, r.spawn)
    /\ UNCHANGED <<store, now, fresh, gone, calls, lim, mem, mock, cache>>


\* stored links of each access level, never expiring or expiring at 1
RedirectLinks ==
    {Created(Link("a", "x", "u1", lvl, IF lvl = Restricted THEN <<"u2">> ELSE <<>>,
                  e, FALSE)) :
        lvl \in {Public, Private, Restricted}, e \in {0, 1}}

RedirectInit ==
    \E l \in RedirectLinks :
        InitWith(DocSet(OnlyBystander, "a", l), Limits(MaxTasks, MaxInc))

\* redirect requests and reads, with a Delete alongside
RedirectNext ==
    \/ \E s \in Shorts \cup {"c"}, u \in {"u1", "u2", ""} : RedirectGet(s, u)
    \/ \E s \in Shorts : GetCall(s)
    \/ \E t \in InFlight : RedirectExpiry(t)
    \/ \E t \in InFlight : RedirectMarkGet(t)
    \/ \E t \in InFlight, ok \in BOOLEAN : RedirectMarkSet(t, ok)
    \/ \E t \in InFlight : RedirectAccess(t)
    \/ \E t \in InFlight : ClickGet(t)
    \/ \E t \in InFlight, ok \in BOOLEAN : IncSet(t, ok)
    \/ \E t \in InFlight : BgGet(t)
    \/ \E t \in InFlight, ok \in BOOLEAN : BgSet(t, ok)
    \/ \E t \in InFlight : ChildGet(t)
    \/ \E t \in InFlight, ok \in BOOLEAN : ChildSet(t, ok)
    \/ \E s \in Shorts : Room(2) /\ DeleteGet(s)
    \/ \E t \in InFlight : DeleteDel(t, TRUE)
    \/ Tick

RedirectSpec == RedirectInit /\ [][RedirectNext]_vars

ClickTasks(b) == CopiesIn(ClickTask("a"), b)

\* the request that a step answers
Answered ==
    {t \in InFlight : t.op = "Redirect" /\ CopiesIn(t, tasks') < CopiesIn(t, tasks)}

----------------------------------------------------------------------------
(* One read of an expired link and the goroutines that follow from it,     *)
(* their writes counted.                                                   *)

FlushInit ==
    \E l \in AccessLinks :
        InitWith(DocSet(OnlyBystander, "a", l), Limits(MaxTasks, MaxClicks))

\* reads are made until one of them has started a goroutine
FlushNext ==
    \/ \E s \in Shorts \cup {"b", "c"} : tasks = EmptyBag /\ calls = 0 /\ GetCall(s)
    \/ \E t \in InFlight : BgGet(t)
    \/ \E t \in InFlight, ok \in BOOLEAN : BgSetCounted(t, ok)
    \/ Tick

FlushSpec == FlushInit /\ [][FlushNext]_vars

\* C14: one GetByShort that finds the link expired and not flagged leads to
\* at most one write of the flag being attempted, whether it fails or not.
C14_OneAttempt ==
    calls <= 1

----------------------------------------------------------------------------
(* LinkHandler.CreateLink and LinkHandler.UpdateLink.  A request body is a *)
(* record; expiresAt 0 stands for an absent or empty expires_at, and       *)
(* hasAllowed tells a present allowed_users from an absent one.            *)

CreateBody(short, url, lvl, exp, allowed, who) ==
    [short |-> short, url |-> url, accessLevel |-> lvl, expiresAt |-> exp,
     allowedUsers |-> allowed, who |-> who]

UpdateBody(short, url, lvl, exp, hasAllowed, allowed, who, auth) ==
    [short |-> short, url |-> url, accessLevel |-> lvl, expiresAt |-> exp,
     hasAllowed |-> hasAllowed, allowedUsers |-> allowed, who |-> who,
     authEnabled |-> auth]

\* a handler between two store accesses: the link it holds and its request
Handling(op, pc, link, req) ==
    [op |-> op, pc |-> pc, short |-> req.short, link |-> link, child |-> "none",
     req |-> req]

\* the answer sent to the client
Answer(op, req, link, status) ==
    Event(op, "done", req.short, req.who, "nil", link, status < 400, FALSE)
        @@ [status |-> status]

ValidLevel(lvl) == lvl \in {Public, Private, Restricted}

\* models.NewLink and the fields CreateLink sets from the body
NewLink(req) ==
    LET lvl == IF req.accessLevel # "" /\ ValidLevel(req.accessLevel)
               THEN req.accessLevel ELSE Public
    IN [Link(req.short, IF req.url = "" THEN "https://example.com" ELSE req.url,
             req.who, lvl,
             IF lvl = Restricted /\ Len(req.allowedUsers) > 0
             THEN req.allowedUsers ELSE <<>>,
             req.expiresAt, FALSE)
        EXCEPT !.createdAt = now, !.updatedAt = now]

CreateLinkGet(req) ==
    LET r == GetByShort(req.short) IN
    /\ IF req.short = ""
       THEN /\ ev' = Answer("CreateLink", req, NoLink, 400)
            /\ UNCHANGED tasks
       ELSE IF r.err = "nil"
       THEN /\ SpawnRoom(r, 0)
            /\ tasks' = WithSpawn(tasks, r)
            /\ ev' = Answer("CreateLink", req, NoLink, 409)
       ELSE IF req.expiresAt # 0 /\ req.expiresAt < now
       THEN /\ ev' = Answer("CreateLink", req, NoLink, 400)
            /\ UNCHANGED tasks
       ELSE /\ Room(1)
            /\ tasks' = Add(tasks, Handling("CreateLink", "check", NewLink(req), req))
            /\ ev' = Event("CreateLink", "get", req.short, req.who, "pending",
                           NoLink, FALSE, FALSE)
    /\ gone' = IF req.short \in Shorts THEN [gone EXCEPT ![req.short] = FALSE] ELSE gone
    /\ UNCHANGED <<store, now, fresh, calls, lim, mem, mock, cache>>

\* h.repo.Create: its own existence check; AlreadyExists is answered 500
CreateLinkCheck(t) ==
    LET r == GetByShort(t.short) IN
    /\ t.op = "CreateLink" /\ t.pc = "check"
    /\ IF r.err = "nil"
       THEN /\ SpawnRoom(r, 0)
            /\ tasks' = WithSpawn(Remove(tasks, t), r)
            /\ ev' = Answer("CreateLink", t.req, NoLink, 500)
       ELSE /\ tasks' = Add(Remove(tasks, t), [t EXCEPT !.pc = "set"])
            /\ ev' = Event("CreateLink", "check", t.short, t.req.who, "pending",
                           NoLink, FALSE, FALSE)
    /\ UNCHANGED <<store, now, fresh, gone, calls, lim, mem, mock, cache>>

CreateLinkSet(t, ok) ==
    LET link == [t.link EXCEPT !.createdAt = now, !.updatedAt = now] IN
    /\ t.op = "CreateLink" /\ t.pc = "set"
    /\ tasks' = Remove(tasks, t)
    /\ IF ok
       THEN /\ store' = DocSet(store, t.short, link)
            /\ fresh' = [fresh EXCEPT ![t.short] = t.link]
            /\ ev' = Answer("CreateLink", t.req, link, 201)
       ELSE /\ ev' = Answer("CreateLink", t.req, NoLink, 500)
            /\ UNCHANGED <<store, fresh>>
    /\ UNCHANGED <<now, gone, calls, lim, mem, mock, cache>>


\* (a variant that takes any access level the body names)
EditedUnchecked(link, req) ==
    [link EXCEPT !.url = IF req.url # "" THEN req.url ELSE @,
                 !.accessLevel = IF req.accessLevel # "" THEN req.accessLevel ELSE @]

\* UpdateLink: the url and access level of the body applied to the link read
Edited(link, req) ==
    [link EXCEPT !.url = IF req.url # "" THEN req.url ELSE @,
                 !.accessLevel = IF req.accessLevel # "" /\ ValidLevel(req.accessLevel)
                                 THEN req.accessLevel ELSE @]

\* UpdateLink: the allowed users are taken from the body only for a
\* restricted link, and then written at once
TakesAllowed(link, req) == link.accessLevel = Restricted /\ req.hasAllowed

\* UpdateLink: the expiry of the body; an absent or empty expires_at removes
\* the expiry of a link that has one
ExpiryRejected(req, t) == req.expiresAt # 0 /\ req.expiresAt < t

WithExpiry(link, req) ==
    IF req.expiresAt # 0
    THEN [link EXCEPT !.expiresAt = req.expiresAt]
    ELSE IF ~IsZero(link.expiresAt)
    THEN [link EXCEPT !.expiresAt = 0, !.isExpired = FALSE]
    ELSE link

\* the goroutine of the handler's read holds the link the handler edits: it
\* writes the link as read or as edited
SpawnEither(b, r, edited) ==
    IF r.spawn THEN {Add(b, BgTask(r.link)), Add(b, BgTask(edited))} ELSE {b}

UpdateLinkGet(req) ==
    LET r == GetByShort(req.short)
        link == Edited(r.link, req)
    IN
    /\ IF r.err # "nil"
       THEN /\ ev' = Answer("UpdateLink", req, NoLink, 404)
            /\ UNCHANGED tasks
       ELSE /\ SpawnRoom(r, 1)
            /\ IF req.who # "anonymous" /\ r.link.createdBy # req.who /\ req.authEnabled
               THEN /\ tasks' = WithSpawn(tasks, r)
                    /\ ev' = Answer("UpdateLink", req, NoLink, 403)
               ELSE IF TakesAllowed(link, req)
               THEN LET l1 == [link EXCEPT !.allowedUsers = req.allowedUsers] IN
                    /\ \E b \in SpawnEither(tasks, r, l1) :
                          tasks' = Add(b, Handling("UpdateLink", "firstget", l1, req))
                    /\ ev' = Event("UpdateLink", "get", req.short, req.who, "pending",
                                   NoLink, FALSE, r.spawn)
               ELSE IF ExpiryRejected(req, now)
               THEN /\ tasks' = WithSpawn(tasks, r)
                    /\ ev' = Answer("UpdateLink", req, NoLink, 400)
               ELSE LET l2 == WithExpiry(link, req) IN
                    /\ \E b \in SpawnEither(tasks, r, l2) :
                          tasks' = Add(b, Handling("UpdateLink", "lastget", l2, req))
                    /\ ev' = Event("UpdateLink", "get", req.short, req.who, "pending",
                                   NoLink, FALSE, r.spawn)
    /\ UNCHANGED <<store, now, fresh, gone, calls, lim, mem, mock>>

\* what follows the write of the allowed users, done or failed
AfterFirst(t) ==
    IF ExpiryRejected(t.req, now)
    THEN /\ tasks' = Remove(tasks, t)
         /\ ev' = Answer("UpdateLink", t.req, NoLink, 400)
    ELSE /\ tasks' = Add(Remove(tasks, t),
                         [t EXCEPT !.pc = "lastget", !.link = WithExpiry(t.link, t.req)])
         /\ ev' = Event("UpdateLink", "first", t.short, t.req.who, "pending",
                        NoLink, FALSE, FALSE)

\* h.repo.Update of the allowed users: existence check
UpdateLinkFirstGet(t) ==
    LET r == GetByShort(t.short) IN
    /\ t.op = "UpdateLink" /\ t.pc = "firstget"
    /\ IF r.err = "nil"
       THEN /\ SpawnRoom(r, 0)
            /\ tasks' = WithSpawn(Add(Remove(tasks, t), [t EXCEPT !.pc = "firstset"]), r)
            /\ ev' = Event("UpdateLink", "firstget", t.short, t.req.who, "pending",
                           NoLink, FALSE, r.spawn)
       ELSE AfterFirst(t)
    /\ UNCHANGED <<store, now, fresh, gone, calls, lim, mem, mock, cache>>

\* ... and write; its error is logged and the handler goes on
UpdateLinkFirstSet(t, ok) ==
    /\ t.op = "UpdateLink" /\ t.pc = "firstset"
    /\ AfterFirst(t)
    /\ IF ok
       THEN /\ store' = DocSet(store, t.short, [t.link EXCEPT !.updatedAt = now])
            /\ fresh' = Written(t.short)
       ELSE UNCHANGED <<store, fresh>>
    /\ UNCHANGED <<now, gone, calls, lim, mem, mock, cache>>

\* the final h.repo.Update: existence check
UpdateLinkLastGet(t) ==
    LET r == GetByShort(t.short) IN
    /\ t.op = "UpdateLink" /\ t.pc = "lastget"
    /\ IF r.err = "nil"
       THEN /\ SpawnRoom(r, 0)
            /\ tasks' = WithSpawn(Add(Remove(tasks, t), [t EXCEPT !.pc = "lastset"]), r)
            /\ ev' = Event("UpdateLink", "lastget", t.short, t.req.who, "pending",
                           NoLink, FALSE, r.spawn)
       ELSE /\ tasks' = Remove(tasks, t)
            /\ ev' = Answer("UpdateLink", t.req, NoLink, 500)
    /\ UNCHANGED <<store, now, fresh, gone, calls, lim, mem, mock, cache>>

\* ... and write
UpdateLinkLastSet(t, ok) ==
    LET link == [t.link EXCEPT !.updatedAt = now] IN
    /\ t.op = "UpdateLink" /\ t.pc = "lastset"
    /\ tasks' = Remove(tasks, t)
    /\ IF ok
       THEN /\ store' = DocSet(store, t.short, link)
            /\ fresh' = Written(t.short)
            /\ ev' = Answer("UpdateLink", t.req, link, 200)
       ELSE /\ ev' = Answer("UpdateLink", t.req, NoLink, 500)
            /\ UNCHANGED <<store, fresh>>
    /\ UNCHANGED <<now, gone, calls, lim, mem, mock, cache>>


\* the bodies sent: a restricted link with a list and an expiry at 1, an
\* unknown access level with no url, an empty short code
CreateBodies ==
    { CreateBody("a", "x", Restricted, 1, <<"u2">>, "u1"),
      CreateBody("a", "", "invalid", 0, <<"u2">>, "anonymous"),
      CreateBody("", "x", Public, 0, <<>>, "u1") }

\* ... and to update: to public with no expiry, an unknown level with a
\* list and an expiry at 2, to restricted with a list and an expiry at 1
UpdateBodies ==
    { UpdateBody("a", "y", Public, 0, FALSE, <<>>, "u1", TRUE),
      UpdateBody("a", "", "invalid", 2, TRUE, <<"u3">>, "anonymous", TRUE),
      UpdateBody("a", "", Restricted, 1, TRUE, <<"u3">>, "u2", FALSE) }

\* no request is being handled
Idle == \A t \in InFlight : t.op \notin {"CreateLink", "UpdateLink"}

\* requests handled one after another, amid the goroutines their reads start
HandlerNext ==
    \/ \E req \in CreateBodies : Idle /\ CreateLinkGet(req)
    \/ \E t \in InFlight : CreateLinkCheck(t)
    \/ \E t \in InFlight : CreateLinkSet(t, TRUE)
    \/ \E req \in UpdateBodies : Idle /\ UpdateLinkGet(req) /\ UNCHANGED cache
    \/ \E t \in InFlight : UpdateLinkFirstGet(t)
    \/ \E t \in InFlight : UpdateLinkFirstSet(t, TRUE)
    \/ \E t \in InFlight : UpdateLinkLastGet(t)
    \/ \E t \in InFlight, ok \in BOOLEAN : UpdateLinkLastSet(t, ok)
    \/ \E t \in InFlight : BgGet(t)
    \/ \E t \in InFlight, ok \in BOOLEAN : BgSet(t, ok)
    \/ Tick

HandlerSpec == Init /\ [][HandlerNext]_vars

\* requests handled concurrently
RacingNext ==
    \/ \E req \in CreateBodies : CreateLinkGet(req)
    \/ \E t \in InFlight : CreateLinkCheck(t)
    \/ \E t \in InFlight, ok \in BOOLEAN : CreateLinkSet(t, ok)
    \/ \E req \in UpdateBodies : UpdateLinkGet(req) /\ UNCHANGED cache
    \/ \E t \in InFlight : UpdateLinkFirstGet(t)
    \/ \E t \in InFlight, ok \in BOOLEAN : UpdateLinkFirstSet(t, ok)
    \/ \E t \in InFlight : UpdateLinkLastGet(t)
    \/ \E t \in InFlight, ok \in BOOLEAN : UpdateLinkLastSet(t, ok)
    \/ \E t \in InFlight : BgGet(t)
    \/ \E t \in InFlight, ok \in BOOLEAN : BgSet(t, ok)
    \/ Tick

RacingSpec == Init /\ [][RacingNext]_vars

C16_ListOnlyRestricted ==
    \A s \in DOMAIN store :
        store[s].accessLevel # Restricted => store[s].allowedUsers = <<>>

----------------------------------------------------------------------------
(* The map-backed repository of the e2e tests (MockLinkRepository with a   *)
(* sync.RWMutex).  Each method is given as what its body does to the map   *)
(* while it holds the mutex: the map afterwards and what it returns.       *)

Outcome(err, links, val) == [err |-> err, links |-> links, val |-> val]
Ran(links, out, spawn) == [links |-> links, out |-> out, spawn |-> spawn]

Stamped(link, c, u) == [link EXCEPT !.createdAt = c, !.updatedAt = u]

MemCreate(m, link) ==
    IF link.short \in DOMAIN m
    THEN Ran(m, Outcome("AlreadyExists", {}, FALSE), FALSE)
    ELSE Ran(DocSet(m, link.short, Stamped(link, now, now)),
             Outcome("nil", {}, FALSE), FALSE)

MemGetByShort(m, short) ==
    IF short \notin DOMAIN m
    THEN Ran(m, Outcome("NotFound", {}, FALSE), FALSE)
    ELSE IF NeedsFlag(m[short])
    THEN Ran(m, Outcome("nil", {[m[short] EXCEPT !.isExpired = TRUE]}, FALSE),
             TRUE)
    ELSE Ran(m, Outcome("nil", {m[short]}, FALSE), FALSE)

MemGetAll(m) == Ran(m, Outcome("nil", {m[s] : s \in DOMAIN m}, FALSE), FALSE)

MemUpdate(m, link) ==
    IF link.short \notin DOMAIN m
    THEN Ran(m, Outcome("NotFound", {}, FALSE), FALSE)
    ELSE Ran(DocSet(m, link.short, [link EXCEPT !.updatedAt = now]),
             Outcome("nil", {}, FALSE), FALSE)

MemDelete(m, short) ==
    IF short \notin DOMAIN m
    THEN Ran(m, Outcome("NotFound", {}, FALSE), FALSE)
    ELSE Ran(DocDelete(m, short), Outcome("nil", {}, FALSE), FALSE)

MemIncrementClickCount(m, short) ==
    IF short \notin DOMAIN m
    THEN Ran(m, Outcome("NotFound", {}, FALSE), FALSE)
    ELSE Ran([m EXCEPT ![short].clickCount = @ + 1, ![short].updatedAt = now],
             Outcome("nil", {}, FALSE), FALSE)

\* the goroutine GetByShort starts: a call of r.GetByShort, followed (when
\* it finds the link) by link.IsExpired = true and a call of r.Update
MemBgTask(short) == Task("GetByShort", "lock", short, NoLink, "go")
MemBgUpdate(link) ==
    Task("Update", "lock", link.short, [link EXCEPT !.isExpired = TRUE], "go")

MemWriters == {"Create", "Update", "Delete", "IncrementClickCount"}
MemReaders == {"GetByShort", "GetAll"}

\* a method is entered: the call waits for the mutex
MemCall(op, short, link) ==
    /\ Room(1)
    /\ tasks' = Add(tasks, Task(op, "lock", short, link, "none"))
    /\ ev' = Event(op, "lock", short, "", "pending", NoLink, FALSE, FALSE)
    /\ UNCHANGED <<store, now, fresh, gone, calls, lim, mem, mock, cache>>

\* (a variant of Lock that does not wait for the readers to leave)
MemLockOverReaders(t) ==
    /\ t.pc = "lock"
    /\ ~mem.writer
    /\ mem' = IF t.op \in MemWriters THEN [mem EXCEPT !.writer = TRUE]
              ELSE [mem EXCEPT !.readers = @ + 1]
    /\ tasks' = Add(Remove(tasks, t), [t EXCEPT !.pc = "in"])
    /\ ev' = Event(t.op, "in", t.short, "", "pending", NoLink, FALSE, FALSE)
    /\ UNCHANGED <<store, now, fresh, gone, calls, lim, mock, cache>>

\* r.mutex.Lock() of the writing methods, r.mutex.RLock() of the reading ones
MemLock(t) ==
    /\ t.pc = "lock"
    /\ IF t.op \in MemWriters
       THEN /\ ~mem.writer /\ mem.readers = 0
            /\ mem' = [mem EXCEPT !.writer = TRUE]
       ELSE /\ ~mem.writer
            /\ mem' = [mem EXCEPT !.readers = @ + 1]
    /\ tasks' = Add(Remove(tasks, t), [t EXCEPT !.pc = "in"])
    /\ ev' = Event(t.op, "in", t.short, "", "pending", NoLink, FALSE, FALSE)
    /\ UNCHANGED <<store, now, fresh, gone, calls, lim, mock, cache>>

MemBody(t) ==
    CASE t.op = "Create" -> MemCreate(mem.links, t.link)
      [] t.op = "GetByShort" -> MemGetByShort(mem.links, t.short)
      [] t.op = "GetAll" -> MemGetAll(mem.links)
      [] t.op = "Update" -> MemUpdate(mem.links, t.link)
      [] t.op = "Delete" -> MemDelete(mem.links, t.short)
      [] t.op = "IncrementClickCount" -> MemIncrementClickCount(mem.links, t.short)

\* the goroutines a returning call leaves behind
MemStarted(t, r) ==
    (IF r.spawn THEN SetToBag({MemBgTask(t.short)}) ELSE EmptyBag)
    (+) (IF t.child = "go" /\ t.op = "GetByShort" /\ r.out.err = "nil"
         THEN SetToBag({MemBgUpdate(CHOOSE l \in r.out.links : TRUE)})
         ELSE EmptyBag)

\* the body of the method under the mutex, and the deferred unlock
MemRun(t) ==
    LET r == MemBody(t) IN
    /\ t.pc = "in"
    /\ BagCardinality(tasks) - 1 + BagCardinality(MemStarted(t, r)) <= lim.tasks
    /\ mem' = IF t.op \in MemWriters
              THEN [links |-> r.links, readers |-> mem.readers, writer |-> FALSE]
              ELSE [links |-> r.links, readers |-> mem.readers - 1,
                    writer |-> mem.writer]
    /\ tasks' = Remove(tasks, t) (+) MemStarted(t, r)
    /\ ev' = Event(t.op, "out", t.short, "", r.out.err, NoLink, FALSE, r.spawn)
    /\ UNCHANGED <<store, now, fresh, gone, calls, lim, mock, cache>>

----------------------------------------------------------------------------
(* The map-backed repository of package mocks (MockLinkRepository of       *)
(* firestore_mock.go): no mutex, errors made with errors.New ("plain": no  *)
(* kind), and the map holds the caller's link as it was handed in.         *)

MockCreate(m, link) ==
    IF link.short \in DOMAIN m
    THEN Ran(m, Outcome("plain", {}, FALSE), FALSE)
    ELSE Ran(DocSet(m, link.short, link), Outcome("nil", {}, FALSE), FALSE)

MockGetByShort(m, short) ==
    IF short \notin DOMAIN m
    THEN Ran(m, Outcome("plain", {}, FALSE), FALSE)
    ELSE Ran(m, Outcome("nil", {m[short]}, FALSE), FALSE)

MockGetAll(m) == Ran(m, Outcome("nil", {m[s] : s \in DOMAIN m}, FALSE), FALSE)

MockUpdate(m, link) ==
    IF link.short \notin DOMAIN m
    THEN Ran(m, Outcome("plain", {}, FALSE), FALSE)
    ELSE Ran(DocSet(m, link.short, [link EXCEPT !.updatedAt = now]),
             Outcome("nil", {}, FALSE), FALSE)

MockDelete(m, short) ==
    IF short \notin DOMAIN m
    THEN Ran(m, Outcome("plain", {}, FALSE), FALSE)
    ELSE Ran(DocDelete(m, short), Outcome("nil", {}, FALSE), FALSE)

MockIncrementClickCount(m, short) ==
    IF short \notin DOMAIN m
    THEN Ran(m, Outcome("plain", {}, FALSE), FALSE)
    ELSE Ran([m EXCEPT ![short].clickCount = @ + 1, ![short].updatedAt = now],
             Outcome("nil", {}, FALSE), FALSE)

MockCheckAccess(m, short, userID) ==
    IF short \notin DOMAIN m
    THEN Ran(m, Outcome("plain", {}, FALSE), FALSE)
    ELSE Ran(m, Outcome("nil", {}, CheckAccess(m[short], userID)), FALSE)

----------------------------------------------------------------------------
(* The three repositories behind one caller.  Every call is issued on the  *)
(* document store and on both maps from the same state and runs to its     *)
(* return before the next call is issued; only the goroutines GetByShort   *)
(* starts run between the calls.                                           *)

\* LinkRepository's methods, run from the read to the write with no other
\* call in between and no failure of the store
DocCreate(link) ==
    IF GetByShort(link.short).err = "nil"
    THEN Ran(store, Outcome("AlreadyExists", {}, FALSE), FALSE)
    ELSE Ran(DocSet(store, link.short, Stamped(link, now, now)),
             Outcome("nil", {}, FALSE), FALSE)

DocGetByShort(short) ==
    LET r == GetByShort(short) IN
    Ran(store, Outcome(r.err, IF r.err = "nil" THEN {r.link} ELSE {}, FALSE),
        r.spawn)

DocGetAll == Ran(store, Outcome("nil", {store[s] : s \in DOMAIN store}, FALSE), FALSE)

DocUpdate(link) ==
    IF GetByShort(link.short).err # "nil"
    THEN Ran(store, Outcome("NotFound", {}, FALSE), FALSE)
    ELSE Ran(DocSet(store, link.short, [link EXCEPT !.updatedAt = now]),
             Outcome("nil", {}, FALSE), FALSE)

DocDeleteCall(short) ==
    IF GetByShort(short).err # "nil"
    THEN Ran(store, Outcome("NotFound", {}, FALSE), FALSE)
    ELSE Ran(DocDelete(store, short), Outcome("nil", {}, FALSE), FALSE)

DocIncrementClickCount(short) ==
    LET r == GetByShort(short) IN
    IF r.err # "nil"
    THEN Ran(store, Outcome("NotFound", {}, FALSE), FALSE)
    ELSE Ran(DocSet(store, short, [r.link EXCEPT !.clickCount = @ + 1,
                                                 !.updatedAt = now]),
             Outcome("nil", {}, FALSE), FALSE)

DocCheckAccess(short, userID) ==
    LET r == GetByShort(short) IN
    IF r.err # "nil"
    THEN Ran(store, Outcome("NotFound", {}, FALSE), FALSE)
    ELSE Ran(store, Outcome("nil", {}, CheckAccess(r.link, userID)), FALSE)

\* one call on the three repositories: f, m and k are what it does to the
\* document store, the e2e map and the mocks map
Twin(op, short, who, arg, f, m, k) ==
    LET r == GetByShort(short)
        b == IF op = "GetAll" THEN tasks ELSE WithSpawn(tasks, r)
        n == IF op = "GetAll" THEN 0 ELSE IF r.spawn THEN 1 ELSE 0
    IN
    /\ \A t \in InFlight : t.op = "bg" \/ t.child = "go"
    /\ ~mem.writer /\ mem.readers = 0
    /\ Room(n + (IF m.spawn THEN 1 ELSE 0))
    /\ store' = f.links
    /\ mem' = [mem EXCEPT !.links = m.links]
    /\ mock' = k.links
    /\ tasks' = IF m.spawn THEN Add(b, MemBgTask(short)) ELSE b
    /\ ev' = Event(op, "twin", short, who, f.out.err, arg, f.out.val, n = 1)
                @@ [fire |-> f.out, mem |-> m.out, mock |-> k.out]
    /\ UNCHANGED <<now, fresh, gone, lim, cache>>

TwinCreate(link) ==
    /\ Twin("Create", link.short, "", link, DocCreate(link),
            MemCreate(mem.links, link), MockCreate(mock, link))
    /\ UNCHANGED calls

TwinGetByShort(short) ==
    /\ Twin("GetByShort", short, "", NoLink, DocGetByShort(short),
            MemGetByShort(mem.links, short), MockGetByShort(mock, short))
    /\ UNCHANGED calls

TwinGetAll ==
    /\ Twin("GetAll", "", "", NoLink, DocGetAll, MemGetAll(mem.links),
            MockGetAll(mock))
    /\ UNCHANGED calls

TwinUpdate(link) ==
    /\ Twin("Update", link.short, "", link, DocUpdate(link),
            MemUpdate(mem.links, link), MockUpdate(mock, link))
    /\ UNCHANGED calls

TwinDelete(short) ==
    /\ Twin("Delete", short, "", NoLink, DocDeleteCall(short),
            MemDelete(mem.links, short), MockDelete(mock, short))
    /\ UNCHANGED calls

TwinIncrementClickCount(short) ==
    /\ calls < MaxInc
    /\ Twin("IncrementClickCount", short, "", NoLink,
            DocIncrementClickCount(short),
            MemIncrementClickCount(mem.links, short),
            MockIncrementClickCount(mock, short))
    /\ calls' = calls + 1

\* the e2e map has no CheckAccess: the call goes to the other two
TwinCheckAccess(short, userID) ==
    /\ Twin("CheckAccess", short, userID, NoLink,
            DocCheckAccess(short, userID),
            Ran(mem.links, DocCheckAccess(short, userID).out, FALSE),
            MockCheckAccess(mock, short, userID))
    /\ UNCHANGED calls

TwinInit == InitWith(NewMock, Limits(MaxTasks, MaxClicks))

TwinNext ==
    \/ \E l \in ArgLinks : TwinCreate(l)
    \/ \E s \in Shorts : TwinGetByShort(s)
    \/ TwinGetAll
    \/ \E l \in ArgLinks : TwinUpdate(l)
    \/ \E s \in Shorts : TwinDelete(s)
    \/ \E s \in Shorts : TwinIncrementClickCount(s)
    \/ \E s \in Shorts, u \in {"u1", "u3"} : TwinCheckAccess(s, u)
    \/ \E t \in InFlight : BgGet(t)
    \/ \E t \in InFlight : BgSet(t, TRUE)
    \/ \E t \in InFlight : MemLock(t)
    \/ \E t \in InFlight : MemRun(t)
    \/ Tick

TwinSpec == TwinInit /\ [][TwinNext]_vars

\* what a caller compares: the outcome with the timestamps left out
Observed(o) == [o EXCEPT !.links = {Stamped(l, 0, 0) : l \in @}]

\* each map-backed repository against the document store, call by call
E2ESameAsDoc == ev.phase = "twin" => Observed(ev.mem) = Observed(ev.fire)
MocksSameAsDoc == ev.phase = "twin" => Observed(ev.mock) = Observed(ev.fire)

\* C17: every call of a sequential run from the empty store returns the same
\* outcome (nil or the same error kind, the same link values but for the
\* timestamps) from the document store repository and from the map-backed
\* ones.
C17_SameOutcomes == E2ESameAsDoc /\ MocksSameAsDoc

----------------------------------------------------------------------------
(* Concurrent callers of the map-backed repositories.  A call of the e2e   *)
(* map waits for the mutex, runs its body and unlocks; a call of the mocks *)
(* map has no mutex to wait for: it is in its body from entry to return.   *)

MockWriters == MemWriters

MockEnter(op, short, link) ==
    /\ Room(1)
    /\ tasks' = Add(tasks, Task(op, "mock", short, link, "none"))
    /\ ev' = Event(op, "mock", short, "", "pending", NoLink, FALSE, FALSE)
    /\ UNCHANGED <<store, now, fresh, gone, calls, lim, mem, mock, cache>>

MockBody(t) ==
    CASE t.op = "Create" -> MockCreate(mock, t.link)
      [] t.op = "GetByShort" -> MockGetByShort(mock, t.short)
      [] t.op = "GetAll" -> MockGetAll(mock)
      [] t.op = "Update" -> MockUpdate(mock, t.link)
      [] t.op = "Delete" -> MockDelete(mock, t.short)
      [] t.op = "IncrementClickCount" -> MockIncrementClickCount(mock, t.short)

\* the calls in their bodies at program point pc, as a bag
Holding(pc) ==
    [t \in {x \in InFlight : x.pc = pc} |-> CopiesIn(t, tasks)]

\* a write of the map while another call reads or writes it
Clash(pc, writers) ==
    /\ BagCardinality(Holding(pc)) > 1
    /\ \E t \in InFlight : t.pc = pc /\ t.op \in writers

\* The body of a mocks method.  Unsynchronised access of a Go map by a
\* writer and another call is a data race: the runtime may end the process
\* ("concurrent map writes"), or the call may go through.
MockRun(t, fatal) ==
    LET r == MockBody(t) IN
    /\ t.pc = "mock"
    /\ fatal => Clash("mock", MockWriters)
    /\ IF fatal
       THEN /\ tasks' = EmptyBag
            /\ mock' = NewMock
            /\ mem' = NewMem
            /\ ev' = Event(t.op, "out", t.short, "", "fatal", NoLink, FALSE, FALSE)
       ELSE /\ tasks' = Remove(tasks, t)
            /\ mock' = r.links
            /\ mem' = mem
            /\ ev' = Event(t.op, "out", t.short, "", r.out.err, NoLink, FALSE, FALSE)
    /\ UNCHANGED <<store, now, fresh, gone, calls, lim, cache>>

\* the calls of the callers: a link that expires at 1, by short code or whole
LockLink == Link("a", "y", "u2", Restricted, <<"u1">>, 1, FALSE)
LockCalls ==
    { <<"Create", "a", LockLink>>, <<"GetByShort", "a", NoLink>>,
      <<"GetAll", "", NoLink>>, <<"Update", "a", LockLink>>,
      <<"Delete", "a", NoLink>>, <<"IncrementClickCount", "a", NoLink>> }

\* the process is wired with one of the two repositories
LockInit ==
    \E repo \in {"mem", "mocks"} :
        InitWith(NewMock, Limits(MaxTasks, MaxClicks) @@ [repo |-> repo])

\* clicks are counted while the stored count is below the limit
Countable(m, c) ==
    c[1] = "IncrementClickCount" =>
        \A s \in DOMAIN m : m[s].clickCount < lim.clicks

LockNext ==
    \/ \E c \in LockCalls :
           lim.repo = "mem" /\ Countable(mem.links, c) /\ MemCall(c[1], c[2], c[3])
    \/ \E t \in InFlight : MemLock(t)
    \/ \E t \in InFlight : MemRun(t)
    \/ \E c \in LockCalls :
           lim.repo = "mocks" /\ Countable(mock, c) /\ MockEnter(c[1], c[2], c[3])
    \/ \E t \in InFlight, fatal \in BOOLEAN : MockRun(t, fatal)
    \/ Tick

LockSpec == LockInit /\ [][LockNext]_vars

\* per repository: no call is in its body together with a writing call
MemWritersAlone == ~Clash("in", MemWriters)
MocksWritersAlone == ~Clash("mock", MockWriters)

\* two reading calls of the e2e map hold the mutex together
MemReadersOverlap ==
    /\ BagCardinality(Holding("in")) > 1
    /\ mem.readers = BagCardinality(Holding("in"))

\* C18: in the map-backed repositories, under any interleaving of concurrent
\* calls, a call that writes the link map (Create, Update, Delete,
\* IncrementClickCount) is never in its body while another call is.
C18_WritersAlone == MemWritersAlone /\ MocksWritersAlone

----------------------------------------------------------------------------
(* Create with the links of TestBoundaryValues, on each repository *)

Invalid(link) ==
    \/ link.short = "" \/ link.url = "" \/ link.createdBy = ""
    \/ link.accessLevel \notin {Public, Private, Restricted}

\* an empty short code, an empty URL, an empty creator, an access level that
\* is none of the three, and a link with nothing wrong
BoundaryLinks ==
    { Link("", "x", "u1", Public, <<>>, 0, FALSE),
      Link("a", "", "u1", Public, <<>>, 0, FALSE),
      Link("a", "x", "", Public, <<>>, 0, FALSE),
      Link("a", "x", "u1", "invalid", <<>>, 0, FALSE),
      Link("a", "x", "u1", Public, <<>>, 0, FALSE) }

BoundaryNext ==
    \/ \E l \in BoundaryLinks : TwinCreate(l)
    \/ \E s \in {"a", ""} : TwinGetByShort(s)
    \/ \E s \in {"a", ""} : TwinDelete(s)
    \/ Tick

BoundarySpec == TwinInit /\ [][BoundaryNext]_vars

\* C19: Create of a link with an empty short code, an empty URL, an empty
\* creator or an access level outside {Public, Private, Restricted} returns
\* an error, and no repository ever holds such a link.
C19_InvalidRejected ==
    /\ ev.phase = "twin" /\ ev.op = "Create" /\ Invalid(ev.link) =>
           ev.fire.err # "nil" /\ ev.mem.err # "nil" /\ ev.mock.err # "nil"
    /\ \A s \in DOMAIN store : ~Invalid(store[s])
    /\ \A s \in DOMAIN mem.links : ~Invalid(mem.links[s])
    /\ \A s \in DOMAIN mock : ~Invalid(mock[s])

----------------------------------------------------------------------------
(* Errors and the status they are answered with.  An error value is the    *)
(* *errors.Error it carries (kind and Code) and whether fmt.Errorf("%w")   *)
(* has been put around it; "plain" is an error that carries none.          *)

Nil == [kind |-> "nil", code |-> 0, wrapped |-> FALSE]
Plain == [kind |-> "plain", code |-> 0, wrapped |-> FALSE]
NewNotFound == [kind |-> "NotFound", code |-> 404, wrapped |-> FALSE]
NewBadRequest == [kind |-> "BadRequest", code |-> 400, wrapped |-> FALSE]
NewUnauthorized == [kind |-> "Unauthorized", code |-> 401, wrapped |-> FALSE]
NewForbidden == [kind |-> "Forbidden", code |-> 403, wrapped |-> FALSE]
NewInternalError == [kind |-> "Internal", code |-> 500, wrapped |-> FALSE]
NewAlreadyExists == [kind |-> "AlreadyExists", code |-> 409, wrapped |-> FALSE]

Wrap(err) == IF err = Nil THEN Nil ELSE [err EXCEPT !.wrapped = TRUE]
Unwrap(err) == [err EXCEPT !.wrapped = FALSE]

RECURSIVE As(_)
\* errors.As with a *Error target: the first *Error of the chain, or Nil
As(err) ==
    IF err.wrapped THEN As(Unwrap(err))
    ELSE IF err.kind \in {"nil", "plain"} THEN Nil
    ELSE err

\* errors.Is(err, ErrNotFound): Error.Unwrap leads to the sentinel
IsNotFound(err) == As(err).kind = "NotFound"

GetStatusCode(err) == IF As(err) # Nil THEN As(err).code ELSE 500

\* response.Error: a type assertion on the error itself, no unwrapping
ResponseError(err) ==
    IF ~err.wrapped /\ err.kind \notin {"nil", "plain"} THEN err.code ELSE 500

\* LinkRepository.GetByShort when the read of the document may fail
RepoGetByShort(short, ok) ==
    LET r == GetByShort(short) IN
    IF ~ok THEN [err |-> NewInternalError, link |-> NoLink, spawn |-> FALSE]
    ELSE [err |-> IF r.err = "nil" THEN Nil ELSE NewNotFound,
          link |-> r.link, spawn |-> r.spawn]

\* the error of LinkRepository.Create: ok is its read, okSet its write
RepoCreate(link, ok, okSet) ==
    LET r == RepoGetByShort(link.short, ok) IN
    IF r.err = Nil THEN NewAlreadyExists
    ELSE IF ~IsNotFound(r.err) THEN Wrap(r.err)
    ELSE IF ~okSet THEN NewInternalError
    ELSE Nil

RepoCheckAccess(short, userID, ok) ==
    LET r == RepoGetByShort(short, ok) IN
    [err |-> r.err, link |-> r.link, spawn |-> r.spawn,
     val |-> IF r.err = Nil THEN CheckAccess(r.link, userID) ELSE FALSE]

\* an answer and the repository error that led to it (Nil when there is none)
Status(op, short, who, err, status) ==
    Event(op, "status", short, who, err, NoLink, status < 400, FALSE)
        @@ [status |-> status]

\* LinkHandler.CreateLink, from the request to the answer
StatusCreateLink(req, ok1, ok2, okSet) ==
    LET pre == RepoGetByShort(req.short, ok1)
        link == NewLink(req)
        err == RepoCreate(link, ok2, okSet)
    IN
    /\ IF req.short = ""
       THEN /\ ev' = Status("CreateLink", req.short, req.who, Nil, 400)
            /\ UNCHANGED <<store, tasks>>
       ELSE IF pre.err = Nil
       THEN /\ SpawnRoom(pre, 0)
            /\ tasks' = WithSpawn(tasks, pre)
            /\ ev' = Status("CreateLink", req.short, req.who, Nil, 409)
            /\ UNCHANGED store
       ELSE IF req.expiresAt # 0 /\ req.expiresAt < now
       THEN /\ ev' = Status("CreateLink", req.short, req.who, Nil, 400)
            /\ UNCHANGED <<store, tasks>>
       ELSE IF err # Nil
       THEN /\ ev' = Status("CreateLink", req.short, req.who, err, 500)
            /\ UNCHANGED <<store, tasks>>
       ELSE /\ store' = DocSet(store, req.short, Stamped(link, now, now))
            /\ ev' = Status("CreateLink", req.short, req.who, Nil, 201)
            /\ UNCHANGED tasks
    /\ UNCHANGED <<now, fresh, gone, calls, lim, mem, mock, cache>>

\* LinkHandler.GetLink, from the request to the answer
StatusGetLink(short, userID, ok1, ok2) ==
    LET r == RepoGetByShort(short, ok1)
        c == RepoCheckAccess(short, userID, ok2)
        n == (IF r.spawn THEN 1 ELSE 0) + (IF c.spawn THEN 1 ELSE 0)
    IN
    /\ IF r.err # Nil
       THEN /\ ev' = Status("GetLink", short, userID, r.err, 404)
            /\ UNCHANGED tasks
       ELSE /\ Room(n)
            /\ tasks' = WithSpawn(WithSpawn(tasks, r), c)
            /\ ev' = IF c.err # Nil
                     THEN Status("GetLink", short, userID, c.err, 500)
                     ELSE IF ~c.val
                     THEN Status("GetLink", short, userID, Nil, 403)
                     ELSE Status("GetLink", short, userID, Nil, 200)
    /\ UNCHANGED <<store, now, fresh, gone, calls, lim, mem, mock>>

\* the error of LinkRepository.Delete: ok is its read, okDel its delete
RepoDelete(short, ok, okDel) ==
    LET r == RepoGetByShort(short, ok) IN
    IF r.err # Nil
    THEN IF IsNotFound(r.err) THEN NewNotFound ELSE Wrap(r.err)
    ELSE IF ~okDel THEN NewInternalError
    ELSE Nil

\* LinkHandler.DeleteLink, from the request to the answer
StatusDeleteLink(short, userID, authEnabled, ok1, ok2, okDel) ==
    LET r == RepoGetByShort(short, ok1)
        err == RepoDelete(short, ok2, okDel)
    IN
    /\ IF r.err # Nil
       THEN /\ ev' = Status("DeleteLink", short, userID, r.err, 404)
            /\ UNCHANGED <<store, tasks>>
       ELSE /\ SpawnRoom(r, 0)
            /\ tasks' = WithSpawn(tasks, r)
            /\ IF userID # "anonymous" /\ r.link.createdBy # userID /\ authEnabled
               THEN /\ ev' = Status("DeleteLink", short, userID, Nil, 403)
                    /\ UNCHANGED store
               ELSE IF err # Nil
               THEN /\ ev' = Status("DeleteLink", short, userID, err, 500)
                    /\ UNCHANGED store
               ELSE /\ store' = DocDelete(store, short)
                    /\ ev' = Status("DeleteLink", short, userID, Nil, 204)
    /\ UNCHANGED <<now, fresh, gone, calls, lim, mem, mock>>

\* the two translations, applied to an error
ErrorValues ==
    { [e EXCEPT !.wrapped = w] :
        e \in {NewNotFound, NewBadRequest, NewUnauthorized, NewForbidden,
               NewInternalError, NewAlreadyExists},
        w \in BOOLEAN }

GetStatusCodeCall(err) ==
    /\ ev' = Status("GetStatusCode", "", "", err, GetStatusCode(err))
    /\ UNCHANGED <<store, now, tasks, fresh, gone, calls, lim, mem, mock, cache>>

ResponseErrorCall(err) ==
    /\ ev' = Status("response.Error", "", "", err, ResponseError(err))
    /\ UNCHANGED <<store, now, tasks, fresh, gone, calls, lim, mem, mock, cache>>

StatusNext ==
    \/ \E req \in CreateBodies, ok1, ok2, okSet \in BOOLEAN :
           StatusCreateLink(req, ok1, ok2, okSet)
    \/ \E s \in Shorts, u \in {"u1", "anonymous"}, ok1, ok2 \in BOOLEAN :
           StatusGetLink(s, u, ok1, ok2) /\ UNCHANGED cache
    \/ \E s \in Shorts, u \in {"u2", "anonymous"},
          authEnabled, ok1, ok2, okDel \in BOOLEAN :
           StatusDeleteLink(s, u, authEnabled, ok1, ok2, okDel) /\ UNCHANGED cache
    \/ \E e \in ErrorValues : GetStatusCodeCall(e)
    \/ \E e \in ErrorValues : ResponseErrorCall(e)
    \/ \E t \in InFlight : BgGet(t)
    \/ \E t \in InFlight, ok \in BOOLEAN : BgSet(t, ok)
    \/ Tick

StatusSpec == Init /\ [][StatusNext]_vars

\* the status of each error kind
StatusOf(kind) ==
    CASE kind = "NotFound" -> 404
      [] kind = "AlreadyExists" -> 409
      [] kind = "BadRequest" -> 400
      [] kind = "Forbidden" -> 403
      [] kind = "Unauthorized" -> 401
      [] kind = "Internal" -> 500

Raised == ev.phase = "status" /\ ev.err # Nil

\* the parts: GetStatusCode, response.Error, and the handlers' answers
StatusCodeByKind ==
    Raised /\ ev.op = "GetStatusCode" => ev.status = StatusOf(ev.err.kind)
ResponseByKind ==
    Raised /\ ev.op = "response.Error" => ev.status = StatusOf(ev.err.kind)
AnswerByKind ==
    Raised /\ ev.op \in {"CreateLink", "GetLink", "DeleteLink"} =>
        ev.status = StatusOf(ev.err.kind)

\* C20: an error of the repository is answered with the status of its kind
\* (NotFound 404, AlreadyExists 409, BadRequest 400, Forbidden 403,
\* Unauthorized 401, Internal 500), wrapped or not, by GetStatusCode, by
\* response.Error and by the handlers: a failed read during a lookup is
\* answered 500 and a duplicate reported by Create 409.
C20_StatusByKind == StatusCodeByKind /\ ResponseByKind /\ AnswerByKind

----------------------------------------------------------------------------
(* The listings: LinkHandler.GetLinks and AnalyticsHandler.GetTopLinks *)

DefaultLimit == 10

\* getUserFromContext: the user of the request context ("none" when there is
\* none), else the X-User-ID header, else "anonymous"
getUserFromContext(user, header) ==
    IF user # "none" THEN user
    ELSE IF header = "" THEN "anonymous"
    ELSE header

\* the query GetLinks runs: by access level, else by creator, else all
Queried(accessLevel, createdBy) ==
    IF accessLevel # ""
    THEN {store[s] : s \in {x \in DOMAIN store : store[x].accessLevel = accessLevel}}
    ELSE IF createdBy # ""
    THEN {store[s] : s \in {x \in DOMAIN store : store[x].createdBy = createdBy}}
    ELSE {store[s] : s \in DOMAIN store}

\* the loop of GetLinks over one link
GetLinksFilter(link, userID) ==
    IF link.accessLevel = Public THEN TRUE
    ELSE IF link.accessLevel = Private /\ link.createdBy = userID THEN TRUE
    ELSE IF link.accessLevel = Restricted
         THEN IF link.createdBy = userID THEN TRUE
              ELSE InAllowed(link.allowedUsers, 1, userID)
    ELSE FALSE

\* the loop of GetTopLinks over one link
GetTopLinksFilter(link, userID) ==
    IF link.accessLevel = Public THEN TRUE
    ELSE IF link.createdBy = userID THEN TRUE
    ELSE IF link.accessLevel = Restricted
         THEN InAllowed(link.allowedUsers, 1, userID)
    ELSE FALSE

Listing(op, userID, query, links) ==
    Event(op, "done", "", userID, "nil", NoLink, TRUE, FALSE)
        @@ [links |-> links, query |-> query, status |-> 200]

\* GetLinks, from the request to the answer.  With a user ID it flags the
\* links past their expiry (h.repo.Update, whose read starts the goroutine
\* of GetByShort) and filters; with none it answers what the query found.
GetLinksCall(user, header, accessLevel, createdBy) ==
    LET userID == getUserFromContext(user, header)
        found == Queried(accessLevel, createdBy)
        stale == IF userID = "" THEN {}
                 ELSE {l \in found : IsLinkExpired(l, now) /\ ~l.isExpired}
        flagged(l) == IF l \in stale THEN [l EXCEPT !.isExpired = TRUE] ELSE l
        listed == IF userID = "" THEN found
                  ELSE {flagged(l) : l \in {x \in found : GetLinksFilter(x, userID)}}
    IN
    /\ Room(Cardinality(stale))
    /\ store' = [s \in DOMAIN store |->
                    IF store[s] \in stale
                    THEN [store[s] EXCEPT !.isExpired = TRUE, !.updatedAt = now]
                    ELSE store[s]]
    /\ tasks' = tasks (+) SetToBag({BgTask(flagged(l)) : l \in stale})
    /\ fresh' = [s \in Shorts |->
                    IF Exists(s) /\ store[s] \in stale THEN NoLink ELSE fresh[s]]
    /\ ev' = Listing("GetLinks", userID,
                     [accessLevel |-> accessLevel, createdBy |-> createdBy], listed)
    /\ UNCHANGED <<now, gone, calls, lim, mem, mock, cache>>

\* GetTopLinks: the accessible links, the first `limit` of them by click
\* count (sort.Slice keeps no order among equal counts)
GetTopLinksCall(user, header, n) ==
    LET userID == getUserFromContext(user, header)
        limit == IF n > 0 THEN n ELSE DefaultLimit
        accessible == {l \in Queried("", "") : GetTopLinksFilter(l, userID)}
    IN
    /\ \E top \in SUBSET accessible :
          /\ Cardinality(top) =
                 IF Cardinality(accessible) > limit THEN limit
                 ELSE Cardinality(accessible)
          /\ \A x \in top, y \in accessible \ top : x.clickCount >= y.clickCount
          /\ ev' = Listing("GetTopLinks", userID,
                           [accessLevel |-> "", createdBy |-> ""], top)
    /\ UNCHANGED <<store, now, tasks, fresh, gone, calls, lim, mem, mock, cache>>

\* the stored link the requests list: each level, by u1 or by a caller with
\* no identity, with and without a list, expiring or not
ListLinks ==
    {[Link("a", "x", by, lvl, al, e, FALSE) EXCEPT !.createdAt = 1, !.updatedAt = 1] :
        by \in {"u1", "anonymous"}, lvl \in {Public, Private, Restricted},
        al \in {<<>>, <<"u2">>}, e \in {0, 1}}

ListInit ==
    \E l \in ListLinks :
        InitWith(DocSet(OnlyBystander, "a", l), Limits(MaxTasks, MaxClicks))

ListNext ==
    \/ \E user \in {"none", "u2", ""}, header \in {"", "u1"},
          lvl \in {"", Private}, by \in {"", "u1"} :
           GetLinksCall(user, header, lvl, by)
    \/ \E user \in {"none", "u2", ""}, header \in {"", "u1"}, n \in {0, 1} :
           GetTopLinksCall(user, header, n)
    \/ \E t \in InFlight : BgGet(t)
    \/ \E t \in InFlight, ok \in BOOLEAN : BgSet(t, ok)
    \/ Tick

ListSpec == ListInit /\ [][ListNext]_vars

\* the access evaluator, as the listings are held to it
Allows(link, userID) ==
    \/ link.accessLevel = Public
    \/ link.createdBy = userID
    \/ link.accessLevel = Restricted /\ InAllowed(link.allowedUsers, 1, userID)

\* the stored links a GetLinks query is about
Matches(link, query) ==
    /\ query.accessLevel # "" => link.accessLevel = query.accessLevel
    /\ query.createdBy # "" => link.createdBy = query.createdBy

Listed == ev.op \in {"GetLinks", "GetTopLinks"} /\ ev.phase = "done"

OnlyAllowedListed == Listed => \A l \in ev.links : Allows(l, ev.who)
NoneOmitted ==
    Listed /\ ev.op = "GetLinks" =>
        \A s \in DOMAIN store :
            Matches(store[s], ev.query) /\ Allows(store[s], ev.who) =>
                \E l \in ev.links : l.short = s

\* the same for a request that carries an identity
IdentifiedListings == ev.who # "" => OnlyAllowedListed /\ NoneOmitted

\* C21: every link in a GetLinks or GetTopLinks response is one the access
\* evaluator allows for the requesting identity, and GetLinks omits no stored
\* link that matches the query and that the evaluator allows.
C21_ListingsFollowAccess == OnlyAllowedListed /\ NoneOmitted

----------------------------------------------------------------------------
(* Ownership: UpdateLink and DeleteLink under each identity *)

\* updates of the url alone: by the creator, by another user, by a caller
\* with no identity, with authentication enabled and disabled
OwnerBodies ==
    { UpdateBody("a", "y", "", 0, FALSE, <<>>, who, auth) :
        who \in {"u1", "u2", "anonymous"}, auth \in BOOLEAN }

OwnerNext ==
    \/ \E req \in CreateBodies : Idle /\ CreateLinkGet(req)
    \/ \E t \in InFlight : CreateLinkCheck(t)
    \/ \E t \in InFlight : CreateLinkSet(t, TRUE)
    \/ \E req \in OwnerBodies : Idle /\ UpdateLinkGet(req) /\ UNCHANGED cache
    \/ \E t \in InFlight : UpdateLinkLastGet(t)
    \/ \E t \in InFlight, ok \in BOOLEAN : UpdateLinkLastSet(t, ok)
    \/ \E s \in Shorts, u \in {"u1", "u2", "anonymous"},
          authEnabled, ok1, ok2, okDel \in BOOLEAN :
           Idle /\ StatusDeleteLink(s, u, authEnabled, ok1, ok2, okDel)
                /\ UNCHANGED cache
    \/ \E t \in InFlight : BgGet(t)
    \/ \E t \in InFlight, ok \in BOOLEAN : BgSet(t, ok)
    \/ Tick

OwnerSpec == Init /\ [][OwnerNext]_vars

\* the stored link is of somebody other than the requester
Foreign(short, who) == Exists(short) /\ store[short].createdBy # who

\* the request is answered Forbidden and the store is as it was
Refused == "status" \in DOMAIN ev' /\ ev'.status = 403 /\ store' = store

\* what becomes of a request on a foreign link, authentication enabled
ForeignUpdate(who) ==
    \A req \in OwnerBodies :
        req.who \in who /\ req.authEnabled /\ Foreign(req.short, req.who)
            /\ UpdateLinkGet(req) => Refused
ForeignDelete(who) ==
    \A s \in Shorts, u \in who, ok2, okDel \in BOOLEAN :
        Foreign(s, u) /\ StatusDeleteLink(s, u, TRUE, TRUE, ok2, okDel) => Refused

\* the same for the requests of signed-in users
NamedOwnersOnly == [][ForeignUpdate({"u1", "u2"}) /\ ForeignDelete({"u1", "u2"})]_vars

\* C22: with authentication enabled, an UpdateLink or DeleteLink request from
\* an identity other than the link's createdBy is answered Forbidden and
\* leaves the stored link unchanged.
C22_CreatorOnly ==
    [][ForeignUpdate({"u1", "u2", "anonymous"})
       /\ ForeignDelete({"u1", "u2", "anonymous"})]_vars

----------------------------------------------------------------------------
(* The write of IncrementClickCount against the document it replaces *)

\* a step is the successful write of the increment t on a stored link
IncWrites(t) == t.op = "Inc" /\ t.pc = "set" /\ Exists(t.short) /\ IncSet(t, TRUE)

\* the fields an increment is to leave alone, but for the expiry flag
SameContent(l, m) ==
    /\ l.url = m.url /\ l.createdBy = m.createdBy
    /\ l.accessLevel = m.accessLevel /\ l.allowedUsers = m.allowedUsers
    /\ l.expiresAt = m.expiresAt /\ l.createdAt = m.createdAt

\* the count goes up by one from the value read, updatedAt is set, and the
\* other links stay
IncCounts(t) ==
    /\ store'[t.short].clickCount = t.link.clickCount + 1
    /\ store'[t.short].updatedAt = now
    /\ \A x \in DOMAIN store \ {t.short} : store'[x] = store[x]

IncKeepsContent ==
    [][\A t \in InFlight :
          IncWrites(t) => SameContent(store'[t.short], store[t.short])]_vars
IncKeepsFlag ==
    [][\A t \in InFlight :
          IncWrites(t) => store'[t.short].isExpired = store[t.short].isExpired]_vars

\* C23: a successful IncrementClickCount(s) raises the stored clickCount of s
\* by exactly 1 from the value it read, sets updatedAt, and leaves url,
\* createdBy, accessLevel, allowedUsers, expiresAt, isExpired and createdAt of
\* s, and every other link, as they were.
C23_IncrementFrame ==
    [][\A t \in InFlight :
          IncWrites(t) =>
              /\ IncCounts(t)
              /\ SameContent(store'[t.short], store[t.short])
              /\ store'[t.short].isExpired = store[t.short].isExpired]_vars

----------------------------------------------------------------------------
(* CheckAccess and the store: every step of AccessSpec is a CheckAccess     *)
(* call, a step of the goroutine its read has started, or the clock        *)

\* a call right after a call with the same arguments, the link not rewritten
\* in between, answers the same
SameAnswerTwice ==
    [][(/\ ev.op = "CheckAccess" /\ ev'.op = "CheckAccess"
        /\ ev'.short = ev.short /\ ev'.who = ev.who
        /\ Exists(ev.short))
          => ev'.val = ev.val /\ ev'.err = ev.err]_vars

\* C24: a CheckAccess(short, identity) call and the background work it starts
\* leave every stored link unchanged, and two calls with the same arguments on
\* the same stored link return the same result.
C24_AccessReadsOnly ==
    [][/\ store' = store
       /\ (/\ ev.op = "CheckAccess" /\ ev'.op = "CheckAccess"
           /\ ev'.short = ev.short /\ ev'.who = ev.who
           /\ Exists(ev.short))
             => ev'.val = ev.val /\ ev'.err = ev.err]_vars

----------------------------------------------------------------------------
(* UpdateLink and the fields its body does not carry *)

\* a body with a url and nothing else
UrlOnly(req) ==
    req.url # "" /\ req.accessLevel = "" /\ req.expiresAt = 0 /\ ~req.hasAllowed

\* a step is the successful final write of the request t on a stored link
UpdateLinkWrites(t) ==
    t.op = "UpdateLink" /\ t.pc = "lastset" /\ Exists(t.short)
        /\ UpdateLinkLastSet(t, TRUE)

SameAccess(l, m) ==
    /\ l.accessLevel = m.accessLevel /\ l.allowedUsers = m.allowedUsers
    /\ l.clickCount = m.clickCount /\ l.createdBy = m.createdBy
    /\ l.createdAt = m.createdAt

SameExpiry(l, m) == l.expiresAt = m.expiresAt /\ l.isExpired = m.isExpired

UrlOnlyKeepsAccess ==
    [][\A t \in InFlight :
          UpdateLinkWrites(t) /\ UrlOnly(t.req)
              => SameAccess(store'[t.short], store[t.short])]_vars

\* C25: an UpdateLink request changes only the fields it supplies: one that
\* carries only a url leaves accessLevel, allowedUsers, clickCount, createdBy,
\* createdAt, expiresAt and isExpired as stored; expiresAt and isExpired are
\* reset only by a request that explicitly clears the expiry.
C25_UpdateFrame ==
    [][\A t \in InFlight :
          UpdateLinkWrites(t) /\ UrlOnly(t.req)
              => /\ SameAccess(store'[t.short], store[t.short])
                 /\ SameExpiry(store'[t.short], store[t.short])]_vars

----------------------------------------------------------------------------
(* The goroutine's write against the document it replaces *)

\* a step is a successful write of the goroutine of GetByShort on a stored link
BackgroundWrites ==
    ev'.op = "bg" /\ ev'.phase = "set" /\ ev'.err = "nil" /\ Exists(ev'.short)

\* C26: the background expiry-flag write started by GetByShort changes only
\* isExpired and updatedAt of the stored link: url, accessLevel, allowedUsers,
\* expiresAt and clickCount persisted by another request between the read and
\* the background write are still there after it.
C26_BackgroundWritesFlagOnly ==
    [][BackgroundWrites =>
          /\ SameContent(store'[ev'.short], store[ev'.short])
          /\ store'[ev'.short].clickCount = store[ev'.short].clickCount]_vars

----------------------------------------------------------------------------
(* Deletion against the writes in flight *)

\* C27: only Create adds a short code to the store: however Delete(s)
\* interleaves with an Update(s), an IncrementClickCount(s) or a background
\* expiry-flag write in flight, once Delete(s) has succeeded and every
\* operation in flight has finished, s is absent from the store unless a
\* Create(s) was issued afterwards.
C27_OnlyCreateAdds ==
    \A s \in Shorts : gone[s] /\ InFlight = {} => ~Exists(s)

----------------------------------------------------------------------------
(* The stored expiry flag against the stored expiry time, under create,     *)
(* update, redirect and read requests                                      *)

\* the creator moves the expiry to a later time, or sends a new url
FlagBodies ==
    { UpdateBody("a", "", "", MaxTime + 1, FALSE, <<>>, "u1", TRUE),
      UpdateBody("a", "y", "", 0, FALSE, <<>>, "u1", TRUE) }

FlagNext ==
    \/ \E req \in CreateBodies : Idle /\ CreateLinkGet(req)
    \/ \E t \in InFlight : CreateLinkCheck(t)
    \/ \E t \in InFlight : CreateLinkSet(t, TRUE)
    \/ \E req \in FlagBodies : Idle /\ UpdateLinkGet(req) /\ UNCHANGED cache
    \/ \E t \in InFlight : UpdateLinkLastGet(t)
    \/ \E t \in InFlight, ok \in BOOLEAN : UpdateLinkLastSet(t, ok)
    \/ \E s \in Shorts, u \in {"u1", ""} : RedirectGet(s, u)
    \/ \E t \in InFlight : RedirectExpiry(t)
    \/ \E t \in InFlight : RedirectMarkGet(t)
    \/ \E t \in InFlight, ok \in BOOLEAN : RedirectMarkSet(t, ok)
    \/ \E t \in InFlight : RedirectAccess(t)
    \/ \E t \in InFlight : ClickGet(t)
    \/ \E t \in InFlight, ok \in BOOLEAN : IncSet(t, ok)
    \/ \E s \in Shorts : GetCall(s)
    \/ \E t \in InFlight : BgGet(t)
    \/ \E t \in InFlight, ok \in BOOLEAN : BgSet(t, ok)
    \/ \E t \in InFlight : ChildGet(t)
    \/ \E t \in InFlight, ok \in BOOLEAN : ChildSet(t, ok)
    \/ Tick

FlagSpec == InitWith(OnlyBystander, Limits(MaxTasks, MaxInc)) /\ [][FlagNext]_vars

\* a flagged link has an expiry time, and it is not ahead of the clock
FlagMeansPast ==
    \A s \in DOMAIN store :
        store[s].isExpired
            => ~IsZero(store[s].expiresAt) /\ store[s].expiresAt <= now

\* C28: in every state reached by create, update, redirect and read requests,
\* a stored link whose isExpired is TRUE has an expiresAt that is set and not
\* in the future; a link the redirect path takes as not expired is never
\* reported as "expired" by the expiry status.
C28_FlagFollowsExpiry ==
    /\ FlagMeansPast
    /\ \A s \in DOMAIN store :
          ~IsLinkExpired(store[s], now)
              => IsExpiringOrExpired(store[s], now).reason # "expired"

----------------------------------------------------------------------------
(* The goroutines that follow from one read, scheduled fairly, their writes *)
(* accepted or rejected by the store                                       *)

\* a read is made when no goroutine of an earlier read is left
ChainNext ==
    \/ \E s \in Shorts \cup {"b", "c"} : tasks = EmptyBag /\ GetCall(s)
    \/ \E t \in InFlight : BgGet(t)
    \/ \E t \in InFlight, ok \in BOOLEAN : BgSet(t, ok)
    \/ Tick

\* a started goroutine runs: its read and its write are each taken in the end
ChainSpec ==
    /\ FlushInit
    /\ [][ChainNext]_vars
    /\ WF_vars(\E t \in InFlight : BgGet(t))
    /\ WF_vars(\E t \in InFlight, ok \in BOOLEAN : BgSet(t, ok))

\* the same, the store accepting every write
AcceptedNext ==
    \/ \E s \in Shorts \cup {"b", "c"} : tasks = EmptyBag /\ GetCall(s)
    \/ \E t \in InFlight : BgGet(t)
    \/ \E t \in InFlight : BgSet(t, TRUE)
    \/ Tick

ChainAccepted ==
    /\ FlushInit
    /\ [][AcceptedNext]_vars
    /\ WF_vars(\E t \in InFlight : BgGet(t))
    /\ WF_vars(\E t \in InFlight : BgSet(t, TRUE))

\* C29: the background work started by one GetByShort of an expired, unflagged
\* link terminates: finitely many goroutines are started and finitely many
\* writes made, also when the store rejects every write.
C29_BackgroundEnds ==
    (tasks # EmptyBag) ~> (tasks = EmptyBag)

----------------------------------------------------------------------------
(* The response cache (CacheMiddleware), ahead of the handlers of          *)
(* /api/links/{short}.  A path is the sequence of its segments.  The       *)
(* lifetimes of cached answers (5, 15 and 30 minutes) are all shorter than *)
(* one tick of the clock: an answer cached at one tick is stale at the     *)
(* next.                                                                   *)

HasPrefix(path, prefix) ==
    Len(prefix) <= Len(path) /\ SubSeq(path, 1, Len(prefix)) = prefix

LinkPath(short) == <<"api", "links", short>>

\* createCacheKey: the hash of "path?query", taken as the text that is hashed
createCacheKey(path, query) == <<path, query>>

\* the lifetime chosen by cachingResponseWriter.Close, in ticks
CacheExpiry(path) ==
    IF HasPrefix(path, <<"api", "analytics">>) THEN 0
    ELSE IF HasPrefix(path, <<"api", "links">>) THEN 0
    ELSE 0

CacheItem(content, statusCode, createdAt, expiry) ==
    [content |-> content, statusCode |-> statusCode, createdAt |-> createdAt,
     expiry |-> expiry]

\* Cache.Get: an item past its lifetime is not found
CacheGet(c, key, t) ==
    IF key \notin DOMAIN c THEN [found |-> FALSE, item |-> CacheItem(NoLink, 0, 0, 0)]
    ELSE IF t - c[key].createdAt > c[key].expiry
    THEN [found |-> FALSE, item |-> CacheItem(NoLink, 0, 0, 0)]
    ELSE [found |-> TRUE, item |-> c[key]]

CacheSet(c, key, item) ==
    [k \in DOMAIN c \cup {key} |-> IF k = key THEN item ELSE c[k]]

CacheDelete(c, key) == [k \in DOMAIN c \ {key} |-> c[k]]

\* the paths CacheMiddleware passes on without caching
CacheSkipped(path) ==
    \/ HasPrefix(path, <<"api", "auth">>)
    \/ path \in {<<"health">>, <<"health", "detailed">>, <<"metrics">>}

\* Cache.periodicCleanup: the items past their lifetime are dropped
CacheCleanup ==
    /\ \E k \in DOMAIN cache : now - cache[k].createdAt > cache[k].expiry
    /\ cache' = [k \in {x \in DOMAIN cache :
                           ~(now - cache[x].createdAt > cache[x].expiry)} |-> cache[k]]
    /\ ev' = Event("Cleanup", "", "", "", "nil", NoLink, FALSE, FALSE)
    /\ UNCHANGED <<store, now, tasks, fresh, gone, calls, lim, mem, mock>>

\* the answer written from the cache
CacheHit(op, short, userID, item) ==
    [Status(op, short, userID, Nil, item.statusCode) EXCEPT !.link = item.content]
        @@ [hit |-> TRUE]

\* GET /api/links/{short} through CacheMiddleware: a cached answer is written
\* as it is; otherwise GetLink answers and an answer below 400 is cached
CachedGetLink(short, userID, ok1, ok2) ==
    LET path == LinkPath(short)
        key == createCacheKey(path, "")
        got == CacheGet(cache, key, now)
        body == RepoGetByShort(short, ok1).link
    IN
    IF CacheSkipped(path)
    THEN StatusGetLink(short, userID, ok1, ok2) /\ UNCHANGED cache
    ELSE IF got.found
    THEN /\ ev' = CacheHit("GetLink", short, userID, got.item)
         /\ UNCHANGED <<store, now, tasks, fresh, gone, calls, lim, mem, mock, cache>>
    ELSE /\ StatusGetLink(short, userID, ok1, ok2)
         /\ cache' = IF ev'.status < 400
                     THEN CacheSet(cache, key,
                                   CacheItem(body, ev'.status, now, CacheExpiry(path)))
                     ELSE cache

\* DELETE /api/links/{short}: the key of the path is dropped, then DeleteLink
CachedDeleteLink(short, userID, authEnabled, ok1, ok2, okDel) ==
    /\ cache' = CacheDelete(cache, createCacheKey(LinkPath(short), ""))
    /\ StatusDeleteLink(short, userID, authEnabled, ok1, ok2, okDel)

\* PUT /api/links/{short}: the key of the path is dropped, then UpdateLink
CachedUpdateLink(req) ==
    /\ cache' = CacheDelete(cache, createCacheKey(LinkPath(req.short), ""))
    /\ UpdateLinkGet(req)

\* stored links of each access level, created by u1
CacheLinks ==
    {Created(Link("a", "x", "u1", lvl, IF lvl = Restricted THEN <<"u2">> ELSE <<>>,
                  0, FALSE)) : lvl \in {Public, Private, Restricted}}

\* the creator makes the link private, or public
CacheBodies ==
    { UpdateBody("a", "", lvl, 0, FALSE, <<>>, "u1", TRUE) : lvl \in {Private, Public} }

CacheInit ==
    \E l \in CacheLinks :
        InitWith(DocSet(OnlyBystander, "a", l), Limits(MaxTasks, MaxClicks))

CacheNext ==
    \/ \E s \in Shorts, u \in {"u1", "u2", "u3"}, ok1, ok2 \in BOOLEAN :
           CachedGetLink(s, u, ok1, ok2)
    \/ \E s \in Shorts, u \in {"u1", "u2"}, ok1, ok2, okDel \in BOOLEAN :
           Idle /\ CachedDeleteLink(s, u, TRUE, ok1, ok2, okDel)
    \/ \E req \in CacheBodies : Idle /\ CachedUpdateLink(req)
    \/ \E t \in InFlight : UpdateLinkLastGet(t)
    \/ \E t \in InFlight, ok \in BOOLEAN : UpdateLinkLastSet(t, ok)
    \/ CacheCleanup
    \/ Tick

CacheSpec == CacheInit /\ [][CacheNext]_vars

\* the step answers a GET of the details of a link with the details
Delivered == "status" \in DOMAIN ev' /\ ev'.op = "GetLink" /\ ev'.status < 400

\* the requester is allowed on the link as stored
AllowedNow ==
    Exists(ev'.short) /\ CheckAccess(store'[ev'.short], ev'.who)

\* the answers GetLink itself gives follow the stored link
HandlerFollowsAccess ==
    [][Delivered /\ "hit" \notin DOMAIN ev' => AllowedNow]_vars

\* C30: with the response cache in the chain, a GET answer for a link is
\* delivered to a requester only if the access evaluator allows that requester
\* on the link as stored: an answer made for one identity is never served from
\* the cache to an identity CheckAccess denies, nor after the link was deleted
\* or made Private.
C30_CacheFollowsAccess ==
    [][Delivered => AllowedNow]_vars

====
